---------------------------- MODULE Spec2Model ----------------------------
(***************************************************************************)
(* A model of the myrpc core: the server's service registry               *)
(* (server/server.go, Server.register), the client's fail modes           *)
(* (client/client.go, Client.Call) and the per-connection dispatch loop   *)
(* of the server (server/server.go, Server.ServeConn).                    *)
(*                                                                         *)
(* The three subsystems share no state, so each has a specification of    *)
(* its own (SpecRegistry, SpecClient, SpecServer) in which the variables  *)
(* of the other two stay at their idle values.                            *)
(***************************************************************************)
EXTENDS Integers, Sequences, FiniteSets, TLC

\* ------------------------------------------------------------------ bounds
\* Register calls made in one behaviour of the registry.
MaxRegs == 2
\* Invoker objects of the client's selector.
NumInvokers == 3
\* The largest MaxTry a client is configured with.
MaxTryCfg == 2
\* Requests whose header is decoded on the connection.
MaxReqs == 2
\* Caller tasks of one invoker.
MaxCalls == 2
\* The largest capacity of a done channel passed to Client.Go.
MaxDoneCap == 2
\* Connections a listener accepts.
MaxConns == 2
\* Service groups made, and registrations made on them.
MaxGroups == 3
MaxSvcs == 1
\* Failures on the connection: of hooks, of the body decode, of service
\* methods (an error returned, a panic).
MaxFaults == 1

\* Service groups made, and RegisterName calls on them, when their prefix
\* lists are followed.
MaxNested == 4

MaxNamed == 1

\* The length of the longest Method or Error: its length takes two bytes.
MaxStringLen == 128

\* The longest batch.
MaxBatch == 3

\* The longest stream of the bson decoder.
MaxStream == 6

\* Client.init: the default MaxTry.
DefaultMaxTry == 3

Nil == "nil"

\* The nil Invoker.
NoInvoker == 0

VARIABLES
    \* ---- registry (Server.serviceMap, Server.routers)
    serviceMap,     \* path -> service, a function on the registered paths
    routers,        \* sequence of paths
    regCount,       \* number of register calls made so far
    regErr,         \* the error of the latest register call: a sequence of errors, <<>> = nil
    regPaths,       \* the paths of the services the latest register call built
    \* ---- client (Client.Call)
    failMode,       \* Client.FailMode
    maxTry,         \* Client.MaxTry after Client.init
    cpc,            \* where Client.Call stands
    tries,          \* the loop counter of Failover / Failtry
    invoker,        \* the local variable invoker of Client.Call
    cerr,           \* the named result err of Client.Call
    clog,           \* the calls made on the selector and on invokers, in order
    evicted,        \* selector: the invokers passed to HandleFailed
    snapshot,       \* Broadcast / Forking: the invokers of selector.List()
    done,           \* Broadcast / Forking: the done channel (a sequence of calls)
    doneCap,        \* its capacity
    l,              \* Broadcast / Forking: completions still awaited
    invState,       \* per invoker: the state of the call handed to its Go
    replyDest,      \* the value at the caller's reply destination
    returnedBy,     \* Forking: the invoker whose completion made Call return nil
    \* ---- server (Server.ServeConn on one connection)
    dpc,            \* where the dispatch task (ServeConn) stands
    dctx,           \* the Context the dispatch task holds
    dreq,           \* the request the dispatch task answers on its error path
    nread,          \* request headers decoded so far
    reqHdr,         \* those headers, in order
    spc,            \* per task: where its sendResponse (or handler) stands
    sctx,           \* per task: the Context it holds
    sending,        \* the mutex sending: its holder
    pool,           \* contextPool: the contexts put back
    responses,      \* the calls of codec.WriteResponse, in order
    wire,           \* what the codec wrote to the connection, in order
    connClosed,     \* conn.Close() was called
    consumed,       \* per decoded header: request bodies the codec consumed
    failedStep,     \* per decoded header: the error type of the step of
                    \* readRequest that failed first, 0 when none did
    handled,        \* per handler: what its service method did
    faults,         \* failures of hooks, body decodes and service methods so far
    made,           \* contexts built by contextPool.New so far
    \* ---- invoker (one connection of the client)
    calls,          \* per caller: its Call (seq, args, reply, error, deliveries on done)
    gopc,           \* per caller: where its Invoker.Go stands
    pending,        \* the pending map: seq -> caller
    nextSeq,        \* the counter that assigns seq
    shutdown,       \* the invoker's shutdown flag
    closing,        \* Close was called: the codec is closed
    closeCalls,     \* calls of Invoker.Close so far
    reader,         \* the receive loop: "running" or "exited"
    requests,       \* the requests the server has received and not answered
    respWire,       \* the responses the server wrote, in order
    nrecv,          \* how many of them the receive loop has read
    \* ---- Client.Go
    cgPc,           \* where Client.Go stands: "ready", "returned", "blocked", "panic"
    cgIn,           \* the service method and args passed to Go
    cgDoneIn,       \* the done channel passed to Go
    cgDone,         \* the done channel of the call, with what Go sent on it
    cgSel,          \* what selector.Select returned
    cgCall,         \* the Call that Go built
    cgDelivered,    \* sends of that Call on its done channel
    cgLog,          \* the calls of Invoker.Go made by Client.Go
    \* ---- listener
    lpc,            \* where ServeListener stands: "start", "accept", "hook", "returned"
    lisClosed,      \* the listener was closed
    conns,          \* the accepted connections: what the hook returned, ServeConn tasks
    nreadAtClose,   \* the requests read on the followed connection when Close ran
    \* ---- service groups
    heap,           \* the backing arrays of the plugin lists
    groups,         \* the service groups made, each with its plugin list
    svcs,           \* the plugin containers handed to register
    groupErr,       \* the last call of Group or RegisterName returned an error
    \* ---- prefixes of service groups
    pheap,          \* the backing arrays of the prefix lists
    pgroups,        \* the service groups made, each with its prefix list
    pregs,          \* the RegisterName calls: group, name, path segments passed on
    \* ---- colfer header round trip
    cfH,            \* the Header that is encoded
    cfDst,          \* the Header decoded into, as it is before the decode
    cfOp,           \* "none", "done"
    cfOut,          \* the bytes, MarshalLen, and what the decode returned and left
    \* ---- JSONMyrpc.Batch: the loop, the reading goroutine, the pipe
    reqs,           \* arg.reqs
    bpc,            \* where Batch is: loop, write, close, wait, done
    bi,             \* the request the loop is at
    testreq,        \* the value every request is decoded into
    replyc,         \* the entries waiting on replyc
    replycClosed,   \* close(replyc) has run
    donec,          \* the number of values on donec
    readerPc,       \* where the reading goroutine is: range, decode, done
    replies,        \* *replies
    served,         \* the requests the server has read and not yet answered
    cliClosed,      \* cli.Close() has run
    berr,           \* Batch's err is not nil
    \* ---- bsonDecoder.Decode
    bsStream,       \* the bytes the decoder's reader holds
    bsOp,           \* ready before Decode, done after it
    bsOut,          \* how Decode ended
    \* ---- hooks around one body read or response write
    hkIn,           \* whether there is a service, the steps that fail
    hkOp,           \* the function that ran: "none", "read", "write"
    hkOut           \* the steps it ran, its error, the error type it recorded

registryVars == <<serviceMap, routers, regCount, regErr, regPaths>>

clientVars == <<failMode, maxTry, cpc, tries, invoker, cerr, clog, evicted,
                snapshot, done, doneCap, l, invState, replyDest, returnedBy>>

serverVars == <<dpc, dctx, dreq, nread, reqHdr, spc, sctx, sending, pool,
                responses, wire, connClosed, consumed, failedStep, handled, faults, made>>

invokerVars == <<calls, gopc, pending, nextSeq, shutdown, closing, closeCalls, reader,
                 requests, respWire, nrecv>>

goVars == <<cgPc, cgIn, cgDoneIn, cgDone, cgSel, cgCall, cgDelivered, cgLog>>

listenerVars == <<lpc, lisClosed, conns, nreadAtClose>>

groupVars == <<heap, groups, svcs, groupErr>>

hookVars == <<hkIn, hkOp, hkOut>>

prefixVars == <<pheap, pgroups, pregs>>

colferVars == <<cfH, cfDst, cfOp, cfOut>>

batchVars == <<reqs, bpc, bi, testreq, replyc, replycClosed, donec, readerPc, replies, served, cliClosed, berr>>

bsonVars == <<bsStream, bsOp, bsOut>>

vars ==
    <<registryVars, clientVars, serverVars, invokerVars, goVars, listenerVars, groupVars,
      hookVars, prefixVars, colferVars, batchVars, bsonVars>>

\* What an action of one subsystem leaves alone.
notRegistryVars ==
    <<clientVars, serverVars, invokerVars, goVars, listenerVars, groupVars, hookVars,
      prefixVars, colferVars, batchVars, bsonVars>>
notClientVars ==
    <<registryVars, serverVars, invokerVars, goVars, listenerVars, groupVars, hookVars,
      prefixVars, colferVars, batchVars, bsonVars>>
notServerVars ==
    <<registryVars, clientVars, invokerVars, goVars, listenerVars, groupVars, hookVars,
      prefixVars, colferVars, batchVars, bsonVars>>
notInvokerVars ==
    <<registryVars, clientVars, serverVars, goVars, listenerVars, groupVars, hookVars,
      prefixVars, colferVars, batchVars, bsonVars>>
notGoVars ==
    <<registryVars, clientVars, serverVars, invokerVars, listenerVars, groupVars, hookVars,
      prefixVars, colferVars, batchVars, bsonVars>>
notListenerVars ==
    <<registryVars, clientVars, serverVars, invokerVars, goVars, groupVars, hookVars,
      prefixVars, colferVars, batchVars, bsonVars>>
notGroupVars ==
    <<registryVars, clientVars, serverVars, invokerVars, goVars, listenerVars, hookVars,
      prefixVars, colferVars, batchVars, bsonVars>>
notHookVars ==
    <<registryVars, clientVars, serverVars, invokerVars, goVars, listenerVars, groupVars,
      prefixVars, colferVars, batchVars, bsonVars>>
notPrefixVars ==
    <<registryVars, clientVars, serverVars, invokerVars, goVars, listenerVars, groupVars,
      hookVars, colferVars, batchVars, bsonVars>>
notColferVars ==
    <<registryVars, clientVars, serverVars, invokerVars, goVars, listenerVars, groupVars,
      hookVars, prefixVars, batchVars, bsonVars>>
notBatchVars ==
    <<registryVars, clientVars, serverVars, invokerVars, goVars, listenerVars, groupVars,
      hookVars, prefixVars, colferVars, bsonVars>>
notBsonVars ==
    <<registryVars, clientVars, serverVars, invokerVars, goVars, listenerVars, groupVars,
      hookVars, prefixVars, colferVars, batchVars>>

\* ================================================================ registry

\* Names a caller may pass to RegisterName or Group.
Names == {"a", "A", "b"}

\* The builder lower-cases every path segment.
ToLower(s) == IF s = "A" THEN "a" ELSE s

\* Byte order of the lower-cased segments, as sort.Strings compares them.
Rank(s) == CASE s = "a" -> 1 [] s = "b" -> 2 [] s = "m" -> 3 [] s = "n" -> 4 [] OTHER -> 0

\* Receivers and the methods of each that are eligible as services.
Rcvrs == {"r0", "r1", "r2"}

RcvrMethods(rcvr) ==
    CASE rcvr = "r1" -> <<"m">>
      [] rcvr = "r2" -> <<"m", "n">>
      [] OTHER -> <<>>

LowerAll(segs) == [k \in 1..Len(segs) |-> ToLower(segs[k])]

\* IServiceBuilder.NewServices: one service per eligible method, its path the
\* lower-cased segments followed by the lower-cased method name; a receiver
\* without an eligible method is rejected.
NewServices(rcvr, pathSegments) ==
    LET ms == RcvrMethods(rcvr)
    IN [err |-> (Len(ms) = 0),
        services |-> [k \in 1..Len(ms) |->
                        [path |-> Append(LowerAll(pathSegments), ToLower(ms[k])),
                         rcvr |-> rcvr]]]

\* Lexicographic order on paths, segment by segment.
RECURSIVE PathLess(_, _)
PathLess(p, q) ==
    IF Len(p) = 0 THEN Len(q) > 0
    ELSE IF Len(q) = 0 THEN FALSE
    ELSE IF Rank(p[1]) # Rank(q[1]) THEN Rank(p[1]) < Rank(q[1])
    ELSE PathLess(Tail(p), Tail(q))

RECURSIVE InsertSorted(_, _)
InsertSorted(x, s) ==
    IF Len(s) = 0 THEN <<x>>
    ELSE IF PathLess(s[1], x) THEN <<s[1]>> \o InsertSorted(x, Tail(s))
    ELSE <<x>> \o s

\* sort.Strings(server.routers)
RECURSIVE SortStrings(_)
SortStrings(s) ==
    IF Len(s) = 0 THEN <<>> ELSE InsertSorted(s[1], SortStrings(Tail(s)))

\* One pass of the loop over the built services: the duplicate check and the
\* Register hooks only collect errors; the path is appended to routers and the
\* service stored in serviceMap whatever they found.
RegisterOne(st, service, reg, p, srvHookErr, svcHookErr) ==
    LET spath == service.path
        present == spath \in DOMAIN st.serviceMap
        e1 == IF present THEN <<[kind |-> "AlreadyExists", path |-> spath]>> ELSE <<>>
        e2 == IF srvHookErr THEN <<[kind |-> "RegisterHook", path |-> spath]>> ELSE <<>>
        e3 == IF svcHookErr THEN <<[kind |-> "RegisterHook", path |-> spath]>> ELSE <<>>
        svc == [path |-> spath, rcvr |-> service.rcvr, reg |-> reg, plugins |-> p]
    IN [serviceMap |-> [q \in DOMAIN st.serviceMap \cup {spath} |->
                          IF q = spath THEN svc ELSE st.serviceMap[q]],
        routers |-> Append(st.routers, spath),
        errs |-> st.errs \o e1 \o e2 \o e3]

RECURSIVE RegisterLoop(_, _, _, _, _, _)
RegisterLoop(st, services, reg, p, srvHookErr, svcHookErr) ==
    IF Len(services) = 0 THEN st
    ELSE RegisterLoop(RegisterOne(st, services[1], reg, p, srvHookErr, svcHookErr),
                      Tail(services), reg, p, srvHookErr, svcHookErr)

\* Server.register(pathSegments, rcvr, p, metadata...), under server.mu.
\* srvHookErr / svcHookErr: whether the Register hook of the server's container,
\* of the service's container p, reports an error (p without plugins cannot).
register(pathSegments, rcvr, p, srvHookErr, svcHookErr) ==
    LET built == NewServices(rcvr, pathSegments)
        st0 == [serviceMap |-> serviceMap, routers |-> routers, errs |-> <<>>]
        st == RegisterLoop(st0, built.services, regCount + 1, p, srvHookErr, svcHookErr)
    IN /\ regCount < MaxRegs
       /\ regCount' = regCount + 1
       /\ UNCHANGED notRegistryVars
       /\ IF built.err \/ Len(built.services) = 0
          THEN /\ regErr' = <<[kind |-> "InvalidService", path |-> <<>>]>>
               /\ regPaths' = <<>>
               /\ UNCHANGED <<serviceMap, routers>>
          ELSE /\ serviceMap' = st.serviceMap
               /\ regErr' = st.errs
               /\ regPaths' = [k \in 1..Len(built.services) |-> built.services[k].path]
               /\ routers' = IF Len(st.errs) > 0 THEN st.routers
                             ELSE SortStrings(st.routers)

\* The prefixes a registration starts from: none (the server itself) or those
\* of a group.
GroupPrefixes == {<<>>, <<"b">>}

SegSeqs == {Append(g, n) : g \in GroupPrefixes, n \in Names}

PluginLists == {<<>>, <<"P">>}

\* Server.RegisterName / ServiceGroup.RegisterName: both end in register, with
\* the name alone or the group's prefixes followed by the name.
Register ==
    \E segs \in SegSeqs, rcvr \in Rcvrs, p \in PluginLists,
       srvHookErr \in BOOLEAN, svcHookErr \in BOOLEAN :
        /\ (svcHookErr => p # <<>>)
        /\ register(segs, rcvr, p, srvHookErr, svcHookErr)

RegistryInit ==
    /\ serviceMap = <<>>
    /\ routers = <<>>
    /\ regCount = 0
    /\ regErr = <<>>
    /\ regPaths = <<>>

\* ================================================================== client

\* Invoker objects the selector can hand out in one behaviour.
Invokers == 1..NumInvokers

FailModes == {"Failover", "Failfast", "Failtry", "Broadcast", "Forking"}

\* Client.init: a MaxTry that is not positive becomes the default.
ClientInitMaxTry(m) == IF m <= 0 THEN DefaultMaxTry ELSE m

\* Selector.Select: an invoker that has not been evicted, or an error, or
\* neither (the client guards against a nil invoker without an error).
SelectOutcomes ==
    {[invoker |-> i, err |-> Nil] : i \in Invokers \ evicted}
        \cup {[invoker |-> NoInvoker, err |-> "SelectErr"], [invoker |-> NoInvoker, err |-> Nil]}

\* Selector.List: a snapshot of the live invokers.
ListOutcomes == SUBSET (Invokers \ evicted)

\* The loop condition tries > 0, evaluated after tries-- on the counter t.
MoreTriesOffByOne(t) == t - 1 >= 0

MoreTries(t) == t - 1 > 0

\* Failtry selects at the top of an iteration only while invoker is nil.
FailtryTopAlwaysSelect(inv) == "select"

FailtryTop(inv) == IF inv = NoInvoker THEN "select" ELSE "call"

\* Where an iteration of the Failover / Failtry loop starts, given the
\* invoker variable.
LoopTop(inv) == IF failMode = "Failover" THEN "select" ELSE FailtryTop(inv)

\* The end of an iteration: tries--, then the loop condition; return err when
\* it fails.
EndIteration(inv) ==
    /\ tries' = tries - 1
    /\ cpc' = IF MoreTries(tries) THEN LoopTop(inv) ELSE "done"

\* invokerBroadCast / invokerForking: done := make(chan *Call, l) with
\* l = len(invokers).
DoneCapacityOne(n) == 1

DoneCapacity(n) == n

\* Client.Call, up to the first call it makes on the selector.
CallEnter ==
    /\ cpc = "ready"
    /\ clog' = clog
    /\ CASE failMode \in {"Broadcast", "Forking"} ->
              \E invokers \in ListOutcomes :
                  /\ snapshot' = invokers
                  /\ IF Cardinality(invokers) = 0
                     THEN /\ cpc' = "done"
                          /\ cerr' = Nil
                          /\ UNCHANGED <<l, doneCap>>
                     ELSE /\ cpc' = "dispatch"
                          /\ l' = Cardinality(invokers)
                          /\ doneCap' = DoneCapacity(Cardinality(invokers))
                          /\ UNCHANGED cerr
                  /\ UNCHANGED tries
         [] failMode \in {"Failover", "Failtry"} ->
              /\ tries' = maxTry
              /\ cpc' = IF maxTry > 0 THEN LoopTop(invoker) ELSE "done"
              /\ UNCHANGED <<snapshot, l, doneCap, cerr>>
         [] OTHER ->
              \* Failfast: no branch of Call handles it.
              /\ cpc' = "done"
              /\ UNCHANGED <<snapshot, l, doneCap, cerr, tries>>
    /\ UNCHANGED <<failMode, maxTry, invoker, evicted, done, invState,
                   replyDest, returnedBy>>
    /\ UNCHANGED notClientVars

\* Failover: invoker, err = Select(); a failed selection uses up the try.
FailoverSelect ==
    /\ cpc = "select"
    /\ failMode = "Failover"
    /\ \E out \in SelectOutcomes :
        /\ clog' = Append(clog, [op |-> "Select", inv |-> out.invoker, ok |-> out.err = Nil])
        /\ invoker' = out.invoker
        /\ cerr' = out.err
        /\ IF out.err # Nil \/ out.invoker = NoInvoker
           THEN EndIteration(out.invoker)
           ELSE /\ cpc' = "call"
                /\ UNCHANGED tries
    /\ UNCHANGED <<failMode, maxTry, evicted, snapshot, done, doneCap, l,
                   invState, replyDest, returnedBy>>
    /\ UNCHANGED notClientVars

\* Failtry: if invoker == nil { invoker, err = Select() }; the call is made
\* whenever the invoker is not nil afterwards.
FailtrySelect ==
    /\ cpc = "select"
    /\ failMode = "Failtry"
    /\ \E out \in SelectOutcomes :
        /\ clog' = Append(clog, [op |-> "Select", inv |-> out.invoker, ok |-> out.err = Nil])
        /\ invoker' = out.invoker
        /\ cerr' = out.err
        /\ IF out.invoker # NoInvoker
           THEN /\ cpc' = "call"
                /\ UNCHANGED tries
           ELSE EndIteration(out.invoker)
    /\ UNCHANGED <<failMode, maxTry, evicted, snapshot, done, doneCap, l,
                   invState, replyDest, returnedBy>>
    /\ UNCHANGED notClientVars

\* Where Call goes after an invoker.Call that failed.
FailedCallSkipsHandle == LoopTop(invoker)

FailedCallPc == "handle"

\* err = invoker.Call(serviceMethod, args, reply): nil returns at once, with
\* the reply decoded into the caller's destination.
InvokerCall ==
    /\ cpc = "call"
    /\ \E ok \in BOOLEAN :
        /\ clog' = Append(clog, [op |-> "Call", inv |-> invoker, ok |-> ok])
        /\ IF ok
           THEN /\ cerr' = Nil
                /\ cpc' = "done"
                /\ replyDest' = invoker
           ELSE /\ cerr' = "CallErr"
                /\ cpc' = FailedCallPc
                /\ UNCHANGED replyDest
    /\ UNCHANGED <<failMode, maxTry, tries, invoker, evicted, snapshot, done,
                   doneCap, l, invState, returnedBy>>
    /\ UNCHANGED notClientVars

\* client.selector.HandleFailed(invoker), the last statement of an iteration.
HandleFailed ==
    /\ cpc = "handle"
    /\ clog' = Append(clog, [op |-> "HandleFailed", inv |-> invoker, ok |-> TRUE])
    /\ evicted' = evicted \cup {invoker}
    /\ EndIteration(invoker)
    /\ UNCHANGED <<failMode, maxTry, invoker, cerr, snapshot, done, doneCap, l,
                   invState, replyDest, returnedBy>>
    /\ UNCHANGED notClientVars

\* Broadcast / Forking: invoker.Go(serviceMethod, args, reply, done) on the
\* next invoker of the snapshot; the receive loop starts after the last one.
\* Every invoker is handed the same reply and the same done channel.
GoDispatch ==
    /\ cpc = "dispatch"
    /\ \E i \in snapshot :
        /\ invState[i] = "idle"
        /\ invState' = [invState EXCEPT ![i] = "pending"]
        /\ clog' = Append(clog, [op |-> "Go", inv |-> i, ok |-> TRUE])
        /\ cpc' = IF \A j \in snapshot \ {i} : invState[j] # "idle"
                  THEN "wait" ELSE "dispatch"
    /\ UNCHANGED <<failMode, maxTry, tries, invoker, cerr, evicted, snapshot,
                   done, doneCap, l, replyDest, returnedBy>>
    /\ UNCHANGED notClientVars

\* An invoker's read loop receives a response without an error: the body is
\* decoded into the call's reply, which is the destination all invokers share.
InvokerDecode ==
    /\ \E i \in Invokers :
        /\ invState[i] = "pending"
        /\ invState' = [invState EXCEPT ![i] = "decoded"]
        /\ replyDest' = i
    /\ UNCHANGED <<failMode, maxTry, cpc, tries, invoker, cerr, clog, evicted,
                   snapshot, done, doneCap, l, returnedBy>>
    /\ UNCHANGED notClientVars

\* The call is delivered on its done channel: after the decode with a nil
\* Error, or with the error of the response, of the write or of the teardown.
InvokerSignal ==
    /\ \E i \in Invokers :
        /\ invState[i] \in {"pending", "decoded"}
        /\ Len(done) < doneCap
        /\ invState' = [invState EXCEPT ![i] = IF invState[i] = "decoded" THEN "ok" ELSE "err"]
        /\ done' = Append(done, [inv |-> i,
                                 error |-> IF invState[i] = "decoded" THEN Nil ELSE "Err"])
    /\ UNCHANGED <<failMode, maxTry, cpc, tries, invoker, cerr, clog, evicted,
                   snapshot, doneCap, l, replyDest, returnedBy>>
    /\ UNCHANGED notClientVars

\* invokerBroadCast: whether a received call ends the loop with an error.
BroadcastIgnoresError(call) == FALSE

BroadcastFailed(call) == call.error # Nil

\* invokerBroadCast: call := <-done in the loop for l > 0.  *reply =
\* call.Reply stores into Call's own variable, not into the caller's
\* destination.
BroadcastRecv ==
    /\ cpc = "wait"
    /\ failMode = "Broadcast"
    /\ Len(done) > 0
    /\ LET call == Head(done)
       IN /\ done' = Tail(done)
          /\ IF BroadcastFailed(call)
             THEN /\ cerr' = "some invokers return Error"
                  /\ cpc' = "done"
                  /\ UNCHANGED l
             ELSE /\ l' = l - 1
                  /\ cpc' = IF l - 1 > 0 THEN "wait" ELSE "done"
                  /\ cerr' = Nil
    /\ UNCHANGED <<failMode, maxTry, tries, invoker, clog, evicted, snapshot,
                   doneCap, invState, replyDest, returnedBy>>
    /\ UNCHANGED notClientVars

\* invokerForking: whether a received call ends the loop with success.
ForkingSucceeded(call) == call.error = Nil

\* invokerForking: call := <-done in the loop for l > 0.
ForkingRecv ==
    /\ cpc = "wait"
    /\ failMode = "Forking"
    /\ Len(done) > 0
    /\ LET call == Head(done)
       IN /\ done' = Tail(done)
          /\ IF ForkingSucceeded(call)
             THEN /\ returnedBy' = call.inv
                  /\ cerr' = Nil
                  /\ cpc' = "done"
                  /\ UNCHANGED l
             ELSE /\ l' = l - 1
                  /\ cpc' = IF l - 1 > 0 THEN "wait" ELSE "done"
                  /\ cerr' = IF l - 1 > 0 THEN cerr ELSE "all invokers return Error"
                  /\ UNCHANGED returnedBy
    /\ UNCHANGED <<failMode, maxTry, tries, invoker, clog, evicted, snapshot,
                   doneCap, invState, replyDest>>
    /\ UNCHANGED notClientVars

ClientInit ==
    /\ failMode \in FailModes
    /\ maxTry \in {ClientInitMaxTry(m) : m \in (-1)..MaxTryCfg}
    /\ cpc = "ready"
    /\ tries = 0
    /\ invoker = NoInvoker
    /\ cerr = Nil
    /\ clog = <<>>
    /\ evicted = {}
    /\ snapshot = {}
    /\ done = <<>>
    /\ doneCap = 0
    /\ l = 0
    /\ invState = [i \in Invokers |-> "idle"]
    /\ replyDest = NoInvoker
    /\ returnedBy = NoInvoker

\* The client before any Call, with its defaults.
ClientIdle ==
    /\ failMode = "Failover"
    /\ maxTry = DefaultMaxTry
    /\ cpc = "ready"
    /\ tries = 0
    /\ invoker = NoInvoker
    /\ cerr = Nil
    /\ clog = <<>>
    /\ evicted = {}
    /\ snapshot = {}
    /\ done = <<>>
    /\ doneCap = 0
    /\ l = 0
    /\ invState = [i \in Invokers |-> "idle"]
    /\ replyDest = NoInvoker
    /\ returnedBy = NoInvoker

RegistryIdle == RegistryInit

ClientNext ==
    \/ CallEnter
    \/ FailoverSelect
    \/ FailtrySelect
    \/ InvokerCall
    \/ HandleFailed
    \/ GoDispatch
    \/ InvokerDecode
    \/ InvokerSignal
    \/ BroadcastRecv
    \/ ForkingRecv

\* ================================================================== server

\* The tasks that call sendResponse on the connection: the dispatch task
\* (ServeConn itself, on the error path) and the handler of each request.
DispatchTask == 0

Handlers == 1..MaxReqs

Senders == {DispatchTask} \cup Handlers

\* The unlocked state of the mutex sending.
NoHolder == -1

\* common.ErrorType, the codes that prefix an error string (spec 7).
ErrorTypeServerPreReadRequestHeader == 1
ErrorTypeServerReadRequestHeader == 2
ErrorTypeServerInvalidServiceMethod == 3
ErrorTypeServerPostReadRequestHeader == 4
ErrorTypeServerNotFoundService == 5
ErrorTypeServerPreReadRequestBody == 6
ErrorTypeServerReadRequestBody == 7
ErrorTypeServerPostReadRequestBody == 8
ErrorTypeServerPreWriteResponse == 9

\* strconv.Itoa on an error type.  A string is modelled as the sequence of
\* its pieces, the empty string as <<>>.
Itoa(n) ==
    CASE n = 0 -> "0" [] n = 1 -> "1" [] n = 2 -> "2" [] n = 3 -> "3" [] n = 4 -> "4"
      [] n = 5 -> "5" [] n = 6 -> "6" [] n = 7 -> "7" [] n = 8 -> "8" [] OTHER -> "9"

\* The service methods a client puts in a request header.
ServiceMethods == {"/a/m", "/a/x", "%"}

\* IServiceBuilder.URIParse: the path of a service method, or an error.
URIParse(serviceMethod) ==
    CASE serviceMethod = "/a/m" -> [err |-> FALSE, path |-> <<"a", "m">>]
      [] serviceMethod = "/a/x" -> [err |-> FALSE, path |-> <<"a", "x">>]
      [] OTHER -> [err |-> TRUE, path |-> <<>>]

\* The sequence number a client puts in the header of its n-th request.
Seqs(n) == {n}

\* A Context as contextPool.New builds it.
NewContext ==
    [req |-> [seq |-> 0, method |-> ""],
     resp |-> [seq |-> 0, method |-> "", error |-> <<>>],
     service |-> <<>>,
     path |-> <<>>,
     replyv |-> FALSE,
     rpcErrorType |-> 0,
     codecConn |-> FALSE,
     id |-> 0]

\* contextPool.New: the k-th Context object the pool builds.
PoolNew(k) == [NewContext EXCEPT !.id = k]

\* Server.getContext: the fields it resets on a context taken from the pool.
ResetContext(ctx) ==
    [ctx EXCEPT !.req = [seq |-> 0, method |-> ""],
                !.resp = [seq |-> 0, method |-> "", error |-> <<>>],
                !.service = <<>>,
                !.codecConn = TRUE,
                !.replyv = FALSE]

\* ctx := server.getContext(conn): contextPool.Get returns a context that
\* was put back or a new one.
GetContext ==
    /\ dpc = "get"
    /\ \/ \E ctx \in pool :
            /\ pool' = pool \ {ctx}
            /\ dctx' = ResetContext(ctx)
            /\ UNCHANGED made
       \/ /\ dctx' = ResetContext(PoolNew(made + 1))
          /\ made' = made + 1
          /\ UNCHANGED pool
    /\ dpc' = "read"
    /\ UNCHANGED <<dreq, nread, reqHdr, spc, sctx,
                   sending, responses, wire, connClosed, consumed, failedStep, handled, faults>>
    /\ UNCHANGED notServerVars

\* Context.readRequestBody: the hooks before the read, the codec's read, the
\* hooks after it.  fail names the step that fails, "none" when none does;
\* the result holds the context, the error and whether the codec consumed
\* the body.
ReadRequestBody(ctx, fail) ==
    CASE fail = "pre" ->
            [ctx |-> [ctx EXCEPT !.rpcErrorType = ErrorTypeServerPreReadRequestBody],
             err |-> <<"PreReadRequestBody hook">>, consumed |-> 0]
      [] fail = "codec" ->
            [ctx |-> [ctx EXCEPT !.rpcErrorType = ErrorTypeServerReadRequestBody],
             err |-> <<"ReadRequestBody: ", "decode">>, consumed |-> 1]
      [] fail = "post" ->
            [ctx |-> [ctx EXCEPT !.rpcErrorType = ErrorTypeServerPostReadRequestBody],
             err |-> <<"PostReadRequestBody hook">>, consumed |-> 1]
      [] OTHER -> [ctx |-> ctx, err |-> <<>>, consumed |-> 1]

BodyFails == {"none", "pre", "codec", "post"}

\* Context.readRequestHeader once the codec has decoded the header hdr:
\* URIParse, the PostReadRequestHeader hooks, the lookup in serviceMap.
ParsedHeader(ctx, hdr, postHookErr) ==
    LET c1 == [ctx EXCEPT !.req = hdr]
        uri == URIParse(hdr.method)
        c2 == [c1 EXCEPT !.path = uri.path]
    IN IF uri.err
       THEN [ctx |-> [c2 EXCEPT !.rpcErrorType = ErrorTypeServerInvalidServiceMethod],
             err |-> <<"invalid service method">>]
       ELSE IF postHookErr
       THEN [ctx |-> [c2 EXCEPT !.rpcErrorType = ErrorTypeServerPostReadRequestHeader],
             err |-> <<"PostReadRequestHeader hook">>]
       ELSE IF uri.path \notin DOMAIN serviceMap
       THEN [ctx |-> [c2 EXCEPT !.rpcErrorType = ErrorTypeServerNotFoundService],
             err |-> <<"can't find service">>]
       ELSE [ctx |-> [c2 EXCEPT !.service = uri.path], err |-> <<>>]

\* Server.readRequest on a request whose header the codec decodes: a failure
\* of readRequestHeader discards the body with readRequestBody(nil), whose
\* own error is dropped; otherwise the body is decoded and replyv allocated.
ReadRequest(ctx, hdr, postHookErr, bodyFail) ==
    LET h == ParsedHeader(ctx, hdr, postHookErr)
        b == ReadRequestBody(h.ctx, bodyFail)
    IN IF h.err # <<>>
       THEN [ctx |-> b.ctx, err |-> h.err, consumed |-> b.consumed,
             failed |-> h.ctx.rpcErrorType]
       ELSE IF b.err # <<>>
       THEN [ctx |-> b.ctx, err |-> b.err, consumed |-> b.consumed,
             failed |-> b.ctx.rpcErrorType]
       ELSE [ctx |-> [b.ctx EXCEPT !.replyv = TRUE], err |-> <<>>, consumed |-> b.consumed,
             failed |-> 0]

\* ctx.resp.Seq = ctx.req.Seq
RespSeqStale(ctx) == ctx.resp.seq

RespSeq(ctx) == ctx.req.seq

\* Server.sendResponse before sending.Lock(): the response header is filled
\* from the request header and the error message.
PrepareResponse(ctx, errmsg) ==
    [ctx EXCEPT !.resp = [seq |-> RespSeq(ctx),
                          method |-> ctx.req.method,
                          error |-> IF errmsg # <<>> THEN errmsg ELSE ctx.resp.error]]

\* Server.putContext
PutContext(ctx) == [ctx EXCEPT !.codecConn = FALSE]

\* ServeConn when readRequest fails with keepReading = false: break.
AfterHeaderFailureContinues == "get"

AfterHeaderFailure == "break"

\* ServeConn after it started the handler: "go server.call(sending, ctx)"
\* returns at once and the loop goes on with the next getContext.
AfterGoCallWaits == "wait"

AfterGoCall == "get"

\* The read of one request in ServeConn's loop, and what the loop does with
\* its result: leave the loop (no header decoded), answer with sendResponse
\* (a failure after the header was decoded) or start the handler.
ReadAndDispatch ==
    /\ dpc = "read"
    /\ \/ \* PreReadRequestHeader hook error, end of stream or a codec error:
          \* keepReading is false; the context is put back and the loop left.
          \E rpcErrorType \in {ErrorTypeServerPreReadRequestHeader,
                               ErrorTypeServerReadRequestHeader} :
             /\ pool' = pool \cup {PutContext([dctx EXCEPT !.rpcErrorType = rpcErrorType])}
             /\ dpc' = AfterHeaderFailure
             /\ UNCHANGED <<dreq, nread, reqHdr, spc, sctx, consumed, failedStep,
                            handled, faults>>
       \/ \E seq \in Seqs(nread + 1), method \in ServiceMethods, postHookErr \in BOOLEAN,
             bodyFail \in BodyFails :
             LET hdr == [seq |-> seq, method |-> method]
                 n == nread + 1
                 r == ReadRequest(dctx, hdr, postHookErr, bodyFail)
                 task == IF r.err # <<>> THEN DispatchTask ELSE n
                 failed == (IF postHookErr THEN 1 ELSE 0) + (IF bodyFail # "none" THEN 1 ELSE 0)
             IN /\ nread < MaxReqs
                /\ faults + failed <= MaxFaults
                /\ faults' = faults + failed
                /\ nread' = n
                /\ reqHdr' = Append(reqHdr, hdr)
                /\ consumed' = Append(consumed, r.consumed)
                /\ failedStep' = Append(failedStep, r.failed)
                /\ UNCHANGED handled
                /\ sctx' = [sctx EXCEPT ![task] =
                               IF r.err # <<>> THEN PrepareResponse(r.ctx, r.err) ELSE r.ctx]
                /\ spc' = [spc EXCEPT ![task] = IF r.err # <<>> THEN "lock" ELSE "call"]
                /\ dreq' = IF r.err # <<>> THEN n ELSE dreq
                /\ dpc' = IF r.err # <<>> THEN "send" ELSE AfterGoCall
                /\ UNCHANGED pool
    /\ dctx' = NewContext
    /\ UNCHANGED <<sending, responses, wire, connClosed>>
    /\ UNCHANGED made
    /\ UNCHANGED notServerVars

\* conn.Close() after the loop.
CloseConn ==
    /\ dpc = "break"
    /\ dpc' = "closed"
    /\ connClosed' = TRUE
    /\ UNCHANGED <<dctx, dreq, nread, reqHdr, spc,
                   sctx, sending, pool, responses, wire, consumed, failedStep, handled, faults>>
    /\ UNCHANGED made
    /\ UNCHANGED notServerVars

\* What a service method does when it is called: it returns nil, returns an
\* error with text, returns an error whose text is empty, or panics.
HandlerResults == {"nil", "error", "emptyError", "panic"}

\* Service.Call: the error it returns to Server.call, isNil for a nil error;
\* a panic of the method is recovered and returned as an error that carries
\* the panic's text.
ServiceCall(did) ==
    CASE did = "nil" -> [isNil |-> TRUE, msg |-> <<>>]
      [] did = "error" -> [isNil |-> FALSE, msg |-> <<"handler error">>]
      [] did = "emptyError" -> [isNil |-> FALSE, msg |-> <<>>]
      [] OTHER -> [isNil |-> FALSE, msg |-> <<"panic: ", "ERROR">>]

\* Server.call: errmsg is "" for a nil error, err.Error() otherwise.
CallErrmsgDropsError(err) == <<>>

CallErrmsg(err) == IF err.isNil THEN <<>> ELSE err.msg

\* Server.call: service.Call, then sendResponse up to sending.Lock().
HandlerCall ==
    /\ \E n \in Handlers, did \in HandlerResults :
        /\ spc[n] = "call"
        /\ did # "nil" => faults < MaxFaults
        /\ faults' = IF did # "nil" THEN faults + 1 ELSE faults
        /\ handled' = [handled EXCEPT ![n] = did]
        /\ sctx' = [sctx EXCEPT ![n] =
                       PrepareResponse(sctx[n], CallErrmsg(ServiceCall(did)))]
        /\ spc' = [spc EXCEPT ![n] = "lock"]
    /\ UNCHANGED <<dpc, dctx, dreq, nread, reqHdr, sending, pool, responses, wire,
                   connClosed, consumed, failedStep>>
    /\ UNCHANGED made
    /\ UNCHANGED notServerVars

\* sending.Lock() succeeds for task s.
LockIgnoresHolder(s) == TRUE

CanLock(s) == sending = NoHolder

\* The request a task answers.
RequestOf(s) == IF s = DispatchTask THEN dreq ELSE s

\* Server.sendResponse: the pool while the response is written; putContext
\* is the last statement, after writeResponse and sending.Unlock().
PoolWhileWritingPutsEarly(p, ctx) == p \cup {PutContext(ctx)}

PoolWhileWriting(p, ctx) == p

\* sending.Lock(), then Context.writeResponse up to the header: a failing
\* PreWriteResponse hook replaces the error and drops the body; a non-empty
\* error gets the error type as its prefix; codec.WriteResponse is called
\* and writes the header, or fails on a closed connection.
LockAndWriteHeader ==
    /\ \E s \in Senders, preHookErr \in BOOLEAN :
        LET c1 == IF preHookErr
                  THEN [sctx[s] EXCEPT !.rpcErrorType = ErrorTypeServerPreWriteResponse,
                                       !.resp.error = <<"PreWriteResponse hook">>]
                  ELSE sctx[s]
            c2 == IF Len(c1.resp.error) > 0
                  THEN [c1 EXCEPT !.resp.error = <<Itoa(c1.rpcErrorType)>> \o c1.resp.error]
                  ELSE c1
            body == IF preHookErr THEN "nil"
                    ELSE IF Len(sctx[s].resp.error) > 0 THEN "invalidRequest"
                    ELSE "reply"
        IN /\ spc[s] = "lock"
           /\ CanLock(s)
           /\ preHookErr => faults < MaxFaults
           /\ faults' = IF preHookErr THEN faults + 1 ELSE faults
           /\ sending' = s
           /\ sctx' = [sctx EXCEPT ![s] = c2]
           /\ responses' = Append(responses,
                  [req |-> RequestOf(s), seq |-> c2.resp.seq, method |-> c2.resp.method,
                   error |-> c2.resp.error, body |-> body,
                   preErr |-> preHookErr, postErr |-> FALSE])
           /\ wire' = IF connClosed THEN wire
                      ELSE Append(wire, [part |-> "header", req |-> RequestOf(s)])
           /\ spc' = [spc EXCEPT ![s] = IF connClosed THEN "unlock" ELSE "body"]
           /\ pool' = PoolWhileWriting(pool, c2)
    /\ UNCHANGED <<dpc, dctx, dreq, nread, reqHdr, connClosed, consumed,
                   failedStep, handled>>
    /\ UNCHANGED made
    /\ UNCHANGED notServerVars

\* sendResponse after an error of writeResponse: the error is logged, the
\* connection is left as it is.
ConnClosedOnWriteError(closed, err) == closed \/ err

ConnAfterWriteError(closed, err) == closed

\* The rest of Context.writeResponse: the codec writes the body, then the
\* PostWriteResponse hooks run; their error is returned to sendResponse and
\* noted on the response it was returned for.
WriteBody ==
    /\ \E s \in Senders, postHookErr \in BOOLEAN :
        /\ spc[s] = "body"
        /\ postHookErr => faults < MaxFaults /\ ~connClosed
        /\ faults' = IF postHookErr THEN faults + 1 ELSE faults
        /\ wire' = IF connClosed THEN wire
                   ELSE Append(wire, [part |-> "body", req |-> RequestOf(s)])
        /\ responses' = [responses EXCEPT ![Len(responses)].postErr = postHookErr]
        /\ connClosed' = ConnAfterWriteError(connClosed, postHookErr)
        /\ spc' = [spc EXCEPT ![s] = "unlock"]
    /\ UNCHANGED <<dpc, dctx, dreq, nread, reqHdr,
                   sctx, sending, pool, consumed, failedStep, handled>>
    /\ UNCHANGED made
    /\ UNCHANGED notServerVars

\* sending.Unlock() and server.putContext(ctx), the end of sendResponse; the
\* dispatch task then goes on with its loop, a handler ends.
UnlockAndPutContext ==
    /\ \E s \in Senders :
        /\ spc[s] = "unlock"
        /\ sending' = NoHolder
        /\ pool' = pool \cup {PutContext(sctx[s])}
        /\ sctx' = [sctx EXCEPT ![s] = NewContext]
        /\ spc' = [spc EXCEPT ![s] = IF s = DispatchTask THEN "idle" ELSE "finished"]
        /\ dpc' = IF s = DispatchTask THEN "get" ELSE dpc
    /\ UNCHANGED <<dctx, dreq, nread, reqHdr, responses, wire, connClosed, consumed, failedStep, handled, faults>>
    /\ UNCHANGED made
    /\ UNCHANGED notServerVars

\* Server.ServeRequest after getContext: the read of the one request and what
\* is done with its result.  With keepReading false it returns the error at
\* once; a failure after the header is answered with sendResponse in the
\* caller's task; otherwise server.call runs synchronously, here as the
\* handler task of the request, for which the caller waits.
ServeRequestRead ==
    /\ dpc = "read"
    /\ \/ \E rpcErrorType \in {ErrorTypeServerPreReadRequestHeader,
                               ErrorTypeServerReadRequestHeader} :
             /\ dpc' = "returned"
             /\ UNCHANGED <<dreq, nread, reqHdr, spc, sctx, pool, consumed, failedStep,
                            handled, faults>>
       \/ \E seq \in Seqs(nread + 1), method \in ServiceMethods, postHookErr \in BOOLEAN,
             bodyFail \in BodyFails :
             LET hdr == [seq |-> seq, method |-> method]
                 n == nread + 1
                 r == ReadRequest(dctx, hdr, postHookErr, bodyFail)
                 task == IF r.err # <<>> THEN DispatchTask ELSE n
                 failed == (IF postHookErr THEN 1 ELSE 0) + (IF bodyFail # "none" THEN 1 ELSE 0)
             IN /\ nread < MaxReqs
                /\ faults + failed <= MaxFaults
                /\ faults' = faults + failed
                /\ nread' = n
                /\ reqHdr' = Append(reqHdr, hdr)
                /\ consumed' = Append(consumed, r.consumed)
                /\ failedStep' = Append(failedStep, r.failed)
                /\ UNCHANGED handled
                /\ sctx' = [sctx EXCEPT ![task] =
                               IF r.err # <<>> THEN PrepareResponse(r.ctx, r.err) ELSE r.ctx]
                /\ spc' = [spc EXCEPT ![task] = IF r.err # <<>> THEN "lock" ELSE "call"]
                /\ dreq' = n
                /\ dpc' = IF r.err # <<>> THEN "send" ELSE "wait"
                /\ UNCHANGED pool
    /\ dctx' = NewContext
    /\ UNCHANGED <<sending, responses, wire, connClosed, made>>
    /\ UNCHANGED notServerVars

\* Server.ServeRequest returns nil once server.call has returned; the
\* connection's owner may call it again for the next request.
ServeRequestReturn ==
    /\ dpc = "wait"
    /\ spc[dreq] = "finished"
    /\ dpc' = "get"
    /\ UNCHANGED <<dctx, dreq, nread, reqHdr, spc, sctx, sending, pool, responses, wire,
                   connClosed, consumed, failedStep, handled, faults, made>>
    /\ UNCHANGED notServerVars

\* The server before ServeConn is called on a connection.
ServerIdle ==
    /\ dpc = "get"
    /\ dctx = NewContext
    /\ dreq = 0
    /\ nread = 0
    /\ reqHdr = <<>>
    /\ spc = [s \in Senders |-> "idle"]
    /\ sctx = [s \in Senders |-> NewContext]
    /\ sending = NoHolder
    /\ pool = {}
    /\ responses = <<>>
    /\ wire = <<>>
    /\ connClosed = FALSE
    /\ consumed = <<>>
    /\ failedStep = <<>>
    /\ handled = [n \in Handlers |-> "none"]
    /\ faults = 0
    /\ made = 0

ServerInit == ServerIdle

\* The registry of a server that serves: RegisterName("a", r1) was made, on a
\* group with one plugin.
RegistryServing ==
    /\ serviceMap = [p \in {<<"a", "m">>} |->
                        [path |-> p, rcvr |-> "r1", reg |-> 1, plugins |-> <<"P">>]]
    /\ routers = <<<<"a", "m">>>>
    /\ regCount = MaxRegs
    /\ regErr = <<>>
    /\ regPaths = <<<<"a", "m">>>>

\* ServeRequest called again and again on one connection.
RequestNext ==
    \/ GetContext
    \/ ServeRequestRead
    \/ ServeRequestReturn
    \/ HandlerCall
    \/ LockAndWriteHeader
    \/ WriteBody
    \/ UnlockAndPutContext

ServerNext ==
    \/ GetContext
    \/ ReadAndDispatch
    \/ CloseConn
    \/ HandlerCall
    \/ LockAndWriteHeader
    \/ WriteBody
    \/ UnlockAndPutContext

\* ================================================================= invoker

\* The caller tasks that issue one call each on the invoker.
Callers == 1..MaxCalls

\* The argument values of the calls.
ArgValues == {7, 8}

\* What the service method of the calls computes from its argument.
HandlerReply(a) == a * a

\* The call registered under seq in the pending map, NoCall when there is none.
NoCall == 0

PendingByArrival(seq) ==
    IF DOMAIN pending = {} THEN NoCall
    ELSE pending[CHOOSE s \in DOMAIN pending : \A t \in DOMAIN pending : s <= t]

PendingCall(seq) == IF seq \in DOMAIN pending THEN pending[seq] ELSE NoCall

\* The pending map without the call c.
RemoveCall(c) ==
    LET keep == {s \in DOMAIN pending : pending[s] # c}
    IN [s \in keep |-> pending[s]]

\* call.done(): the call is delivered on its done channel.
Signal(call, error, by) ==
    [call EXCEPT !.error = error, !.signals = call.signals + 1, !.by = by]

\* The pending map after the teardown has signalled the calls in it.
TeardownKeepsCalls == pending

AfterTeardown == [s \in {} |-> NoCall]

\* Invoker.Go, first part: a new seq is taken and the call registered in the
\* pending map; on an invoker that is shut down or closing the call fails at
\* once with the teardown error.
InvokerGo ==
    /\ \E c \in Callers, a \in ArgValues :
        /\ gopc[c] = "idle"
        /\ IF shutdown \/ closing
           THEN /\ calls' = [calls EXCEPT ![c] =
                                Signal([calls[c] EXCEPT !.args = a], "ErrShutdown", "go")]
                /\ gopc' = [gopc EXCEPT ![c] = "returned"]
                /\ UNCHANGED <<pending, nextSeq>>
           ELSE /\ calls' = [calls EXCEPT ![c] = [calls[c] EXCEPT !.args = a, !.seq = nextSeq]]
                /\ pending' = [s \in DOMAIN pending \cup {nextSeq} |->
                                  IF s = nextSeq THEN c ELSE pending[s]]
                /\ nextSeq' = nextSeq + 1
                /\ gopc' = [gopc EXCEPT ![c] = "registered"]
    /\ UNCHANGED <<shutdown, closing, closeCalls, reader, requests, respWire, nrecv>>
    /\ UNCHANGED notInvokerVars

\* Invoker.Go, second part, under the send lock: the codec writes header and
\* body of the request.  A write fails on a closed codec and may fail on an
\* open one; then the call is removed from the map, if it still is there,
\* marked with the error and signalled.
InvokerWrite ==
    /\ \E c \in Callers, writeOk \in BOOLEAN :
        LET ok == writeOk /\ ~closing /\ reader = "running"
        IN /\ gopc[c] = "registered"
           /\ gopc' = [gopc EXCEPT ![c] = "returned"]
           /\ IF ok
              THEN /\ requests' = requests \cup {[seq |-> calls[c].seq, args |-> calls[c].args]}
                   /\ UNCHANGED <<calls, pending>>
              ELSE /\ UNCHANGED requests
                   /\ IF PendingCall(calls[c].seq) = c
                      THEN /\ pending' = RemoveCall(c)
                           /\ calls' = [calls EXCEPT ![c] = Signal(calls[c], "WriteErr", "write")]
                      ELSE UNCHANGED <<calls, pending>>
    /\ UNCHANGED <<nextSeq, shutdown, closing, closeCalls, reader, respWire, nrecv>>
    /\ UNCHANGED notInvokerVars

\* The server answers a request it has received: the response has the seq of
\* the request and the handler's reply or an error.  Requests are answered
\* in any order.
ServerRespond ==
    /\ \E r \in requests, failed \in BOOLEAN :
        /\ requests' = requests \ {r}
        /\ respWire' = Append(respWire,
               [seq |-> r.seq, error |-> failed,
                reply |-> IF failed THEN 0 ELSE HandlerReply(r.args)])
    /\ UNCHANGED <<calls, gopc, pending, nextSeq, shutdown, closing, closeCalls, reader, nrecv>>
    /\ UNCHANGED notInvokerVars

\* The receive loop reads one response: the call with the header's seq is
\* taken out of the map; without one the body is discarded; an error in the
\* header becomes the call's error; otherwise the body is decoded into the
\* call's reply.  Then the call is signalled.
InvokerReceive ==
    /\ reader = "running"
    /\ ~closing
    /\ nrecv < Len(respWire)
    /\ nrecv' = nrecv + 1
    /\ LET h == respWire[nrecv + 1]
           c == PendingCall(h.seq)
       IN IF c = NoCall
          THEN UNCHANGED <<calls, pending>>
          ELSE /\ pending' = RemoveCall(c)
               /\ calls' = [calls EXCEPT ![c] =
                    IF h.error
                    THEN Signal(calls[c], "ServerError", "receive")
                    ELSE Signal([calls[c] EXCEPT !.reply = h.reply], Nil, "receive")]
    /\ UNCHANGED <<gopc, nextSeq, shutdown, closing, closeCalls, reader, requests, respWire>>
    /\ UNCHANGED notInvokerVars

\* The receive loop ends, on a read error, at the end of the stream or on a
\* closed codec: shutdown is set and every call still in the map is signalled
\* with the teardown error.
ReadLoopExit ==
    /\ reader = "running"
    /\ reader' = "exited"
    /\ shutdown' = TRUE
    /\ calls' = [c \in Callers |->
                    IF \E s \in DOMAIN pending : pending[s] = c
                    THEN Signal(calls[c], "ErrShutdown", "teardown")
                    ELSE calls[c]]
    /\ pending' = AfterTeardown
    /\ UNCHANGED <<gopc, nextSeq, closing, closeCalls, requests, respWire, nrecv>>
    /\ UNCHANGED notInvokerVars

\* Invoker.Close, called by Client.Close after selector.HandleFailed has
\* closed the invoker already: the codec is closed.
InvokerClose ==
    /\ closeCalls < 2
    /\ closeCalls' = closeCalls + 1
    /\ closing' = TRUE
    /\ UNCHANGED <<calls, gopc, pending, nextSeq, shutdown, reader, requests, respWire, nrecv>>
    /\ UNCHANGED notInvokerVars

InvokerInit ==
    /\ calls = [c \in Callers |->
                   [seq |-> 0, args |-> 0, reply |-> 0, error |-> Nil, signals |-> 0,
                    by |-> "none"]]
    /\ gopc = [c \in Callers |-> "idle"]
    /\ pending = [s \in {} |-> NoCall]
    /\ nextSeq = 1
    /\ shutdown = FALSE
    /\ closing = FALSE
    /\ closeCalls = 0
    /\ reader = "running"
    /\ requests = {}
    /\ respWire = <<>>
    /\ nrecv = 0

InvokerIdle == InvokerInit

InvokerNext ==
    \/ InvokerGo
    \/ InvokerWrite
    \/ ServerRespond
    \/ InvokerReceive
    \/ ReadLoopExit
    \/ InvokerClose

\* =============================================================== Client.Go

\* The done channels a caller passes to Go: nil, or a channel with its
\* capacity and the number of calls already in its buffer.
DoneChannels ==
    {[isNil |-> TRUE, cap |-> 0, len |-> 0]}
        \cup {ch \in [isNil : {FALSE}, cap : 0..MaxDoneCap, len : 0..MaxDoneCap] :
                 ch.len <= ch.cap}

\* The service method, args and reply a caller passes to Go.
GoInputs == {[method |-> sm, args |-> a] : sm \in {"/a/m", "/a/x"}, a \in ArgValues}

\* done = make(chan *Call, 1)
NewDoneUnbuffered == [isNil |-> FALSE, cap |-> 0, len |-> 0]

NewDone == [isNil |-> FALSE, cap |-> 1, len |-> 0]

\* call.done(): the call is sent on its done channel.  A send on a channel
\* whose buffer is full does not deliver: the send is skipped and Go returns,
\* or the caller blocks in it (onFull).
CallDone(ch, onFull) ==
    IF ch.len < ch.cap
    THEN [ch |-> [ch EXCEPT !.len = ch.len + 1], sent |-> 1, pc |-> "returned"]
    ELSE [ch |-> ch, sent |-> 0, pc |-> onFull]

\* Client.Go as one step: Select; on its error the Call is built, the done
\* channel allocated or checked, and call.done() sends the call on it.
\* Without error Go hands over to the selected invoker's Go; calling it on a
\* nil invoker is a nil dereference.
ClientGo ==
    /\ cgPc = "ready"
    /\ \E sel \in SelectOutcomes, onFull \in {"returned", "blocked"} :
        /\ cgSel' = sel
        /\ IF sel.err # Nil
           THEN LET ch == IF cgDone.isNil THEN NewDone ELSE cgDone
                IN /\ UNCHANGED cgLog
                   /\ IF ~cgDone.isNil /\ cgDone.cap = 0
                      THEN /\ cgPc' = "panic"
                           /\ UNCHANGED <<cgDone, cgCall, cgDelivered>>
                      ELSE /\ cgCall' = [method |-> cgIn.method, args |-> cgIn.args,
                                         error |-> sel.err, doneCap |-> ch.cap]
                           /\ cgDone' = CallDone(ch, onFull).ch
                           /\ cgDelivered' = cgDelivered + CallDone(ch, onFull).sent
                           /\ cgPc' = CallDone(ch, onFull).pc
           ELSE /\ UNCHANGED <<cgDone, cgCall, cgDelivered>>
                /\ IF sel.invoker = NoInvoker
                   THEN /\ cgPc' = "panic"
                        /\ UNCHANGED cgLog
                   ELSE /\ cgPc' = "returned"
                        /\ cgLog' = Append(cgLog,
                              [inv |-> sel.invoker, method |-> cgIn.method,
                               args |-> cgIn.args, done |-> cgDone])
    /\ UNCHANGED <<cgIn, cgDoneIn>>
    /\ UNCHANGED notGoVars

NoSelect == [invoker |-> NoInvoker, err |-> "none"]

NoGoCall == [method |-> "", args |-> 0, error |-> Nil, doneCap |-> 0]

GoInit ==
    /\ cgPc = "ready"
    /\ cgIn \in GoInputs
    /\ cgDoneIn \in DoneChannels
    /\ cgDone = cgDoneIn
    /\ cgSel = NoSelect
    /\ cgCall = NoGoCall
    /\ cgDelivered = 0
    /\ cgLog = <<>>

GoIdle ==
    /\ cgPc = "ready"
    /\ cgIn = [method |-> "/a/m", args |-> 7]
    /\ cgDoneIn = [isNil |-> TRUE, cap |-> 0, len |-> 0]
    /\ cgDone = cgDoneIn
    /\ cgSel = NoSelect
    /\ cgCall = NoGoCall
    /\ cgDelivered = 0
    /\ cgLog = <<>>

GoNext == ClientGo

\* ======================================================= listener, shutdown

\* lis.Accept(): on a closed listener the error "use of closed network
\* connection"; otherwise a connection, or another error.
AcceptOutcomes ==
    IF lisClosed
    THEN {"closed"}
    ELSE {"otherErr"} \cup (IF Len(conns) < MaxConns THEN {"conn"} ELSE {})

\* ServeListener after an error of Accept.
AfterAcceptErrorContinues == "accept"

AfterAcceptError == "returned"

\* The ServeConn tasks started for a connection after doPostConnAccept: none
\* on its error (log and continue), one otherwise.
TasksAfterHookAlways(hookErr) == 1

TasksAfterHook(hookErr) == IF hookErr THEN 0 ELSE 1

\* ServeListener stores the listener under server.mu and enters the loop.
ServeListenerStart ==
    /\ lpc = "start"
    /\ lpc' = "accept"
    /\ UNCHANGED <<lisClosed, conns, nreadAtClose>>
    /\ UNCHANGED notListenerVars

\* One lis.Accept() of the loop: a connection goes on to the PostConnAccept
\* hook; an error ends ServeListener (it is logged unless it is the error of
\* a closed listener; the log is not followed).
Accept ==
    /\ lpc = "accept"
    /\ \E out \in AcceptOutcomes :
        IF out = "conn"
        THEN /\ conns' = Append(conns, [hook |-> "pending", tasks |-> 0, closed |-> FALSE])
             /\ lpc' = "hook"
        ELSE /\ lpc' = AfterAcceptError
             /\ UNCHANGED conns
    /\ UNCHANGED <<lisClosed, nreadAtClose>>
    /\ UNCHANGED notListenerVars

\* ServeListener after doPostConnAccept: whether it has closed the
\* connection.  On the hook's error it logs and continues; otherwise the
\* connection is left to ServeConn.
ClosedAfterHook(hookErr) == FALSE

\* doPostConnAccept on the accepted connection: on its error the loop
\* continues without serving the connection, otherwise go ServeConn(conn).
\* The first connection that is served is the one whose ServeConn is followed
\* step by step.
PostConnAccept ==
    /\ lpc = "hook"
    /\ \E hookErr \in BOOLEAN :
        /\ conns' = [conns EXCEPT ![Len(conns)] =
                        [hook |-> IF hookErr THEN "err" ELSE "ok",
                         tasks |-> TasksAfterHook(hookErr),
                         closed |-> ClosedAfterHook(hookErr)]]
        /\ dpc' = IF TasksAfterHook(hookErr) > 0 /\ dpc = "unserved" THEN "get" ELSE dpc
    /\ lpc' = "accept"
    /\ UNCHANGED <<lisClosed, nreadAtClose>>
    /\ UNCHANGED <<dctx, dreq, nread, reqHdr, spc, sctx, sending, pool, responses,
                   wire, connClosed, consumed, failedStep, handled, faults, made>>
    /\ UNCHANGED <<registryVars, clientVars, invokerVars, goVars, groupVars,
                   hookVars,
                   prefixVars, colferVars, batchVars, bsonVars>>

\* Server.Close, called once ServeListener has stored the listener: under
\* server.mu, server.listener.Close().
ServerClose ==
    /\ lpc # "start"
    /\ ~lisClosed
    /\ lisClosed' = TRUE
    /\ nreadAtClose' = nread
    /\ UNCHANGED <<lpc, conns>>
    /\ UNCHANGED notListenerVars

\* Accept on a closed listener does not wait for a peer.
AcceptAfterClose == lisClosed /\ Accept

ListenerInit ==
    /\ lpc = "start"
    /\ lisClosed = FALSE
    /\ conns = <<>>
    /\ nreadAtClose = 0

ListenerIdle == ListenerInit

\* The connection that will be followed is not accepted yet.  Its hooks,
\* body decodes and service methods do not fail: the budget of failures is
\* spent (the failures are followed in SpecServer).
ServerUnserved ==
    /\ dpc = "unserved"
    /\ dctx = NewContext
    /\ dreq = 0
    /\ nread = 0
    /\ reqHdr = <<>>
    /\ spc = [s \in Senders |-> "idle"]
    /\ sctx = [s \in Senders |-> NewContext]
    /\ sending = NoHolder
    /\ pool = {}
    /\ responses = <<>>
    /\ wire = <<>>
    /\ connClosed = FALSE
    /\ consumed = <<>>
    /\ failedStep = <<>>
    /\ handled = [n \in Handlers |-> "none"]
    /\ faults = MaxFaults
    /\ made = 0

ShutdownNext ==
    \/ ServeListenerStart
    \/ Accept
    \/ PostConnAccept
    \/ ServerClose
    \/ GetContext
    \/ ReadAndDispatch
    \/ CloseConn
    \/ HandlerCall
    \/ LockAndWriteHeader
    \/ WriteBody
    \/ UnlockAndPutContext

\* =========================================================== service groups

\* A slice is a backing array of the heap (0: none) and a length; the
\* capacity is the length of the backing array.
NilSlice == [arr |-> 0, len |-> 0]

\* The elements a slice shows.
SliceElems(h, s) == IF s.arr = 0 THEN <<>> ELSE SubSeq(h[s.arr], 1, s.len)

SliceCap(h, s) == IF s.arr = 0 THEN 0 ELSE Len(h[s.arr])

\* n unused slots of a backing array.
RECURSIVE Blanks(_)
Blanks(n) == IF n = 0 THEN <<>> ELSE <<"-">> \o Blanks(n - 1)

\* The capacity append gives a slice of length n that has to grow by one.
GrowCap(n) == IF n = 0 THEN 1 ELSE 2 * n

\* append(s, x): in place while the capacity allows, otherwise into a new
\* backing array that starts with a copy of the elements.
AppendOne(h, s, x) ==
    IF s.len < SliceCap(h, s)
    THEN [h |-> [h EXCEPT ![s.arr][s.len + 1] = x],
          s |-> [arr |-> s.arr, len |-> s.len + 1]]
    ELSE [h |-> Append(h, SliceElems(h, s) \o <<x>> \o Blanks(GrowCap(s.len) - s.len - 1)),
          s |-> [arr |-> Len(h) + 1, len |-> s.len + 1]]

\* PluginContainer.Add(plugins...): each plugin in turn is appended to the
\* container's list; a plugin whose name the list already holds ends Add
\* with an error.
RECURSIVE Add(_, _, _)
Add(h, s, plugins) ==
    IF Len(plugins) = 0 THEN [h |-> h, s |-> s, err |-> FALSE]
    ELSE IF \E k \in 1..s.len : SliceElems(h, s)[k] = plugins[1]
    THEN [h |-> h, s |-> s, err |-> TRUE]
    ELSE Add(AppendOne(h, s, plugins[1]).h, AppendOne(h, s, plugins[1]).s, Tail(plugins))

\* The container of a new child group: a new container that is given the
\* parent's plugins (none for a group of the server itself) and then the
\* plugins of the call.
ChildContainerAliased(h, parent, plugins) == Add(h, parent, plugins)

ChildContainer(h, parent, plugins) ==
    LET inherited == IF parent.arr = 0 THEN [h |-> h, s |-> NilSlice, err |-> FALSE]
                     ELSE Add(h, NilSlice, SliceElems(h, parent))
    IN Add(inherited.h, inherited.s, plugins)

\* The plugins a caller passes to Group.
GivenPlugins == {<<>>, <<"S">>, <<"T">>, <<"P", "Q", "R">>, <<"P", "P">>}

\* Server.Group (g = 0) and ServiceGroup.Group (g a group made before): on
\* an error of CheckSname or of Add no group is made.
Group ==
    /\ Len(groups) < MaxGroups
    /\ \E g \in 0..Len(groups), plugins \in GivenPlugins, badPrefix \in BOOLEAN :
        LET parent == IF g = 0 THEN NilSlice ELSE groups[g].plugins
            c == ChildContainer(heap, parent, plugins)
        IN IF badPrefix \/ c.err
           THEN /\ groupErr' = TRUE
                /\ UNCHANGED <<heap, groups>>
           ELSE /\ heap' = c.h
                /\ groups' = Append(groups,
                     [parent |-> g, plugins |-> c.s, given |-> plugins,
                      inherited |-> SliceElems(heap, parent)])
                /\ groupErr' = FALSE
    /\ UNCHANGED svcs
    /\ UNCHANGED notGroupVars

\* all = make([]plugin.IPlugin, len(_plugins)); copy(all, _plugins)
CopyOf(h, s) ==
    IF s.arr = 0 THEN [h |-> h, s |-> NilSlice]
    ELSE [h |-> Append(h, SliceElems(h, s)), s |-> [arr |-> Len(h) + 1, len |-> s.len]]

\* ServiceGroup.RegisterName on group g, up to the container p it hands to
\* register (whose effect on the registry is Register); g = 0 is
\* Server.RegisterName, which hands over an empty container.
GroupRegisterName ==
    /\ Len(svcs) < MaxSvcs
    /\ \E g \in 0..Len(groups), badName \in BOOLEAN :
        LET from == IF g = 0 THEN NilSlice ELSE groups[g].plugins
            c == CopyOf(heap, from)
        IN IF badName
           THEN /\ groupErr' = TRUE
                /\ UNCHANGED <<heap, svcs>>
           ELSE /\ heap' = c.h
                /\ svcs' = Append(svcs, [group |-> g, plugins |-> c.s,
                                          groupHad |-> SliceElems(heap, from)])
                /\ groupErr' = FALSE
    /\ UNCHANGED groups
    /\ UNCHANGED notGroupVars

GroupsInit ==
    /\ heap = <<>>
    /\ groups = <<>>
    /\ svcs = <<>>
    /\ groupErr = FALSE

GroupsIdle == GroupsInit

GroupsNext ==
    \/ Group
    \/ GroupRegisterName

\* ========================================== hooks around body read and write

\* The steps of a body read or a response write: the hooks of the server's
\* container and of the service's container before and after the codec's
\* I/O.
HookSteps == {"serverPre", "servicePre", "codec", "servicePost", "serverPost"}

\* What one call meets: whether the context has a service, and the steps
\* that return an error.
HookInputs == [hasService : BOOLEAN, fails : SUBSET HookSteps]

\* One step is run: it is added to the trace, and its error is the result.
RunStep(in, st, step) == [trace |-> Append(st.trace, step), err |-> step \in in.fails]

\* err == nil && ctx.service != nil, before the service's pre hook.
ServicePreRunsAfterError(in, st) == in.hasService

ServicePreRuns(in, st) == ~st.err /\ in.hasService

\* The pre part of both functions: the server's hook, then the service's.
PreHooks(in) ==
    LET s1 == RunStep(in, [trace |-> <<>>, err |-> FALSE], "serverPre")
    IN IF ServicePreRuns(in, s1) THEN RunStep(in, s1, "servicePre") ELSE s1

\* The post part of both functions: the service's hook if there is a
\* service, then the server's unless that one failed.
PostHooks(in, st) ==
    LET s1 == IF in.hasService THEN RunStep(in, st, "servicePost") ELSE st
    IN IF ~s1.err THEN RunStep(in, s1, "serverPost") ELSE s1

\* Context.readRequestBody: the steps it runs, whether it returns an error,
\* and the error type it records (0: none recorded).
readRequestBody(in) ==
    LET pre == PreHooks(in)
        io == RunStep(in, pre, "codec")
        post == PostHooks(in, io)
    IN IF pre.err
       THEN [trace |-> pre.trace, err |-> TRUE, errType |-> ErrorTypeServerPreReadRequestBody]
       ELSE IF io.err
       THEN [trace |-> io.trace, err |-> TRUE, errType |-> ErrorTypeServerReadRequestBody]
       ELSE [trace |-> post.trace, err |-> post.err,
             errType |-> IF post.err THEN ErrorTypeServerPostReadRequestBody ELSE 0]

\* Context.writeResponse: an error of the pre hooks is put into the response
\* and the codec still writes; an error of the codec returns before the
\* post hooks.
writeResponse(in) ==
    LET pre == PreHooks(in)
        io == RunStep(in, [pre EXCEPT !.err = FALSE], "codec")
        post == PostHooks(in, io)
        errType == IF pre.err THEN ErrorTypeServerPreWriteResponse ELSE 0
    IN IF io.err
       THEN [trace |-> io.trace, err |-> TRUE, errType |-> errType]
       ELSE [trace |-> post.trace, err |-> post.err, errType |-> errType]

DoReadRequestBody ==
    /\ hkOp = "none"
    /\ hkOp' = "read"
    /\ hkOut' = readRequestBody(hkIn)
    /\ UNCHANGED hkIn
    /\ UNCHANGED notHookVars

DoWriteResponse ==
    /\ hkOp = "none"
    /\ hkOp' = "write"
    /\ hkOut' = writeResponse(hkIn)
    /\ UNCHANGED hkIn
    /\ UNCHANGED notHookVars

NoHookOut == [trace |-> <<>>, err |-> FALSE, errType |-> 0]

HooksInit ==
    /\ hkIn \in HookInputs
    /\ hkOp = "none"
    /\ hkOut = NoHookOut

HooksIdle ==
    /\ hkIn = [hasService |-> FALSE, fails |-> {}]
    /\ hkOp = "none"
    /\ hkOut = NoHookOut

HooksNext ==
    \/ DoReadRequestBody
    \/ DoWriteResponse

\* ============================================================ group prefixes

\* The prefixes a caller passes to Group, the names to RegisterName.
PrefixNames == {"a", "b"}

RegisterNames == {"n"}

\* ServiceGroup.Group: prefixes: append(group.prefixes, prefix).
ChildPrefixes(h, parent, prefix) == AppendOne(h, parent, prefix)

\* Server.Group (g = 0, a group without prefixes) and ServiceGroup.Group on
\* a group made before; made notes the prefixes the new group starts with.
PrefixGroup ==
    /\ Len(pgroups) < MaxNested
    /\ \E g \in 0..Len(pgroups), prefix \in PrefixNames :
        LET parent == IF g = 0 THEN NilSlice ELSE pgroups[g].prefixes
            c == ChildPrefixes(pheap, parent, prefix)
        IN /\ pheap' = c.h
           /\ pgroups' = Append(pgroups,
                  [parent |-> g, prefixes |-> c.s,
                   made |-> SliceElems(pheap, parent) \o <<prefix>>])
    /\ UNCHANGED pregs
    /\ UNCHANGED notPrefixVars

\* ServiceGroup.RegisterName on group g: the path segments it passes to
\* register are append(group.prefixes, name).
PrefixRegisterName ==
    /\ Len(pregs) < MaxNamed
    /\ \E g \in 1..Len(pgroups), name \in RegisterNames :
        LET c == AppendOne(pheap, pgroups[g].prefixes, name)
        IN /\ pheap' = c.h
           /\ pregs' = Append(pregs, [group |-> g, name |-> name,
                                      pathSegments |-> SliceElems(c.h, c.s)])
    /\ UNCHANGED pgroups
    /\ UNCHANGED notPrefixVars

PrefixesInit ==
    /\ pheap = <<>>
    /\ pgroups = <<>>
    /\ pregs = <<>>

PrefixesIdle == PrefixesInit

PrefixesNext ==
    \/ PrefixGroup
    \/ PrefixRegisterName

\* ============================================================ colfer header

\* An unsigned integer of w bits is the sequence of its bits, lowest first:
\* a uint64 does not fit the integers of the model checker.
Pow2(n) == 2 ^ n

Bit(v, j) == (v \div Pow2(j)) % 2

Uint(w, S) == [k \in 1..w |-> IF (k - 1) \in S THEN 1 ELSE 0]

\* The value of the n bits of x from bit position from on (n at most 8).
RECURSIVE BitsVal(_, _, _)
BitsVal(x, from, n) ==
    IF n = 0 THEN 0
    ELSE (IF from + 1 <= Len(x) THEN x[from + 1] ELSE 0) + 2 * BitsVal(x, from + 1, n - 1)

\* x >= 1 << n
AtLeastPow2(x, n) == \E k \in (n + 1)..Len(x) : x[k] = 1

\* x >> n
ShiftRight(x, n) == [k \in 1..Len(x) |-> IF k + n <= Len(x) THEN x[k + n] ELSE 0]

\* x | v << shift, for a byte v; bits shifted beyond the width are lost.
OrShifted(x, v, shift) ==
    [k \in 1..Len(x) |->
        IF k - 1 >= shift /\ k - 1 < shift + 8 /\ Bit(v, k - 1 - shift) = 1 THEN 1 ELSE x[k]]

\* The loop "for x >= 0x80 { buf[i] = byte(x | 0x80); x >>= 7; i++ }" and the
\* last byte buf[i] = byte(x), on a uint64.
RECURSIVE Varint(_)
Varint(x) ==
    IF AtLeastPow2(x, 7) THEN <<128 + BitsVal(x, 0, 7)>> \o Varint(ShiftRight(x, 7))
    ELSE <<BitsVal(x, 0, 8)>>

\* The same loop on a length.
RECURSIVE VarintLen(_)
VarintLen(n) == IF n >= 128 THEN <<128 + (n % 128)>> \o VarintLen(n \div 128) ELSE <<n>>

\* byte(x>>56), byte(x>>48), ..., byte(x)
Fixed64(x) == [k \in 1..8 |-> BitsVal(x, 8 * (8 - k), 8)]

\* Header.MarshalTo: the bytes it writes, in order.
MarshalTo(o) ==
    (IF AtLeastPow2(o.SeqID, 49) THEN <<128>> \o Fixed64(o.SeqID)
     ELSE IF \E k \in 1..64 : o.SeqID[k] = 1 THEN <<0>> \o Varint(o.SeqID)
     ELSE <<>>)
    \o (IF Len(o.Method) # 0 THEN <<1>> \o VarintLen(Len(o.Method)) \o o.Method ELSE <<>>)
    \o (IF Len(o.Error) # 0 THEN <<2>> \o VarintLen(Len(o.Error)) \o o.Error ELSE <<>>)
    \o <<127>>

\* The bytes the loop "for x >= 0x80 { x >>= 7; l++ }" counts.
RECURSIVE ExtraBytes(_)
ExtraBytes(x) == IF AtLeastPow2(x, 7) THEN 1 + ExtraBytes(ShiftRight(x, 7)) ELSE 0

RECURSIVE ExtraBytesLen(_)
ExtraBytesLen(n) == IF n >= 128 THEN 1 + ExtraBytesLen(n \div 128) ELSE 0

\* Header.MarshalLen (sizes stay far below ColferSizeMax).
MarshalLen(o) ==
    1 + (IF AtLeastPow2(o.SeqID, 49) THEN 9
         ELSE IF \E k \in 1..64 : o.SeqID[k] = 1 THEN 2 + ExtraBytes(o.SeqID)
         ELSE 0)
      + (IF Len(o.Method) # 0 THEN Len(o.Method) + ExtraBytesLen(Len(o.Method)) + 2 ELSE 0)
      + (IF Len(o.Error) # 0 THEN Len(o.Error) + ExtraBytesLen(Len(o.Error)) + 2 ELSE 0)

\* Header.MarshalBinary: data = make([]byte, l); o.MarshalTo(data).  A write
\* beyond the buffer panics; bytes not written stay zero.
MarshalBinary(o) ==
    LET size == MarshalLen(o)
        written == MarshalTo(o)
    IN IF Len(written) > size THEN [data |-> <<>>, panic |-> TRUE]
       ELSE [data |-> written \o [k \in 1..(size - Len(written)) |-> 0], panic |-> FALSE]

\* The varint loop of Unmarshal for SeqID, from index i (0-based) on:
\* the value, the index after it, or eof.
RECURSIVE ReadVarint64(_, _, _, _)
ReadVarint64(data, i, shift, x) ==
    IF i >= Len(data) THEN [eof |-> TRUE, i |-> i, x |-> x]
    ELSE LET b == data[i + 1]
         IN IF shift = 56 \/ b < 128
            THEN [eof |-> FALSE, i |-> i + 1, x |-> OrShifted(x, b, shift)]
            ELSE ReadVarint64(data, i + 1, shift + 7, OrShifted(x, b % 128, shift))

\* The varint loop for a length, a uint32.
RECURSIVE ReadVarint32(_, _, _, _)
ReadVarint32(data, i, shift, x) ==
    IF i >= Len(data) THEN [eof |-> TRUE, i |-> i, x |-> x]
    ELSE LET b == data[i + 1]
         IN IF b < 128
            THEN [eof |-> FALSE, i |-> i + 1, x |-> OrShifted(x, b, shift)]
            ELSE ReadVarint32(data, i + 1, shift + 7, OrShifted(x, b % 128, shift))

\* to := i + int(x): a length of 2^24 or more ends beyond any data here.
EndOf(data, i, x) ==
    IF AtLeastPow2(x, 24) THEN Len(data)
    ELSE i + BitsVal(x, 0, 8) + 256 * BitsVal(x, 8, 8) + 65536 * BitsVal(x, 16, 8)

\* Unmarshal from the field header on: [o, header, i] after the SeqID part,
\* the Method part, the Error part; eof when the data ends early.
UnmarshalSeqID(o, data) ==
    LET header == data[1]
    IN IF header = 0
       THEN LET v == ReadVarint64(data, 1, 0, Uint(64, {}))
            IN IF v.eof \/ v.i >= Len(data) THEN [eof |-> TRUE, o |-> o, header |-> 0, i |-> 0]
               ELSE [eof |-> FALSE, o |-> [o EXCEPT !.SeqID = v.x],
                     header |-> data[v.i + 1], i |-> v.i + 1]
       ELSE IF header = 128
       THEN IF 1 + 8 >= Len(data) THEN [eof |-> TRUE, o |-> o, header |-> 0, i |-> 0]
            ELSE [eof |-> FALSE,
                  o |-> [o EXCEPT !.SeqID =
                            [k \in 1..64 |-> Bit(data[2 + (64 - k) \div 8], (k - 1) % 8)]],
                  header |-> data[10], i |-> 10]
       ELSE [eof |-> FALSE, o |-> o, header |-> header, i |-> 1]

UnmarshalString(st, field, tag, data) ==
    IF st.eof \/ st.header # tag THEN st
    ELSE LET v == ReadVarint32(data, st.i, 0, Uint(32, {}))
             to == EndOf(data, v.i, v.x)
         IN IF v.eof \/ to >= Len(data) THEN [st EXCEPT !.eof = TRUE]
            ELSE [eof |-> FALSE,
                  o |-> [st.o EXCEPT ![field] = SubSeq(data, v.i + 1, to)],
                  header |-> data[to + 1], i |-> to + 1]

\* Header.Unmarshal(data) on the destination o: the destination afterwards,
\* the bytes read, the error.
Unmarshal(o, data) ==
    IF Len(data) = 0 THEN [o |-> o, n |-> 0, err |-> "EOF"]
    ELSE LET s1 == UnmarshalSeqID(o, data)
             s2 == UnmarshalString(s1, "Method", 1, data)
             s3 == UnmarshalString(s2, "Error", 2, data)
         IN IF s3.eof THEN [o |-> s3.o, n |-> 0, err |-> "EOF"]
            ELSE IF s3.header # 127 THEN [o |-> s3.o, n |-> 0, err |-> "ColferError"]
            ELSE [o |-> s3.o, n |-> s3.i, err |-> "nil"]

\* Header.UnmarshalBinary
UnmarshalBinary(o, data) ==
    LET r == Unmarshal(o, data)
    IN IF r.err # "nil" THEN r
       ELSE IF r.n # Len(data) THEN [r EXCEPT !.err = "ColferTail"]
       ELSE r

\* SeqID values: zero, below 2^49 with one, two and seven varint bytes, and
\* at or above 2^49.
SeqIDs ==
    {Uint(64, {}), Uint(64, {0}), Uint(64, {2, 5, 8}), Uint(64, 0..48),
     Uint(64, {49}), Uint(64, {0, 40, 63}), Uint(64, 0..63)}

\* Method and Error: empty, short, and long enough for a length of two bytes.
Strings == {<<>>, <<109>>, <<47, 97, 47, 109>>, [k \in 1..MaxStringLen |-> 120]}

Headers == [SeqID : SeqIDs, Method : Strings, Error : Strings]

\* The destinations of a decode: a fresh Header and one that was used before.
Destinations ==
    {[SeqID |-> Uint(64, {}), Method |-> <<>>, Error |-> <<>>],
     [SeqID |-> Uint(64, {3}), Method |-> <<111>>, Error |-> <<101, 114>>]}

NoColferOut == [data |-> <<>>, len |-> 0, panic |-> FALSE, n |-> 0, err |-> "nil",
                o |-> [SeqID |-> Uint(64, {}), Method |-> <<>>, Error |-> <<>>]]

\* data, _ := h.MarshalBinary(); err := dst.UnmarshalBinary(data)
ColferRoundTrip ==
    /\ cfOp = "none"
    /\ cfOp' = "done"
    /\ LET m == MarshalBinary(cfH)
           r == UnmarshalBinary(cfDst, m.data)
       IN cfOut' = IF m.panic THEN [NoColferOut EXCEPT !.panic = TRUE, !.len = MarshalLen(cfH)]
                   ELSE [data |-> m.data, len |-> MarshalLen(cfH), panic |-> FALSE,
                         n |-> r.n, err |-> r.err, o |-> r.o]
    /\ UNCHANGED <<cfH, cfDst>>
    /\ UNCHANGED notColferVars

ColferInit ==
    /\ cfH \in Headers
    /\ cfDst \in Destinations
    /\ cfOp = "none"
    /\ cfOut = NoColferOut

ColferIdle ==
    /\ cfH = [SeqID |-> Uint(64, {}), Method |-> <<>>, Error |-> <<>>]
    /\ cfDst = cfH
    /\ cfOp = "none"
    /\ cfOut = NoColferOut

ColferNext ==
    \/ ColferRoundTrip

\* ============================================================ json-rpc batch

\* A request of a batch, as far as Batch looks at it: a nil entry, or bytes
\* that decode as a request or not, with an id or without one.
NilRequest == [nil |-> TRUE, ok |-> FALSE, id |-> FALSE]

BatchRequests ==
    {NilRequest} \cup {[nil |-> FALSE, ok |-> o, id |-> d] : o \in BOOLEAN, d \in BOOLEAN}

RECURSIVE SeqsUpTo(_, _)
SeqsUpTo(S, n) ==
    IF n = 0 THEN {<<>>}
    ELSE LET shorter == SeqsUpTo(S, n - 1)
         IN  shorter \cup {Append(q, x) : q \in {t \in shorter : Len(t) = n - 1}, x \in S}

\* var testreq serverRequest: one value for the whole loop.
NewTestreq == [ID |-> FALSE]

\* json.Unmarshal(*req, &testreq): the decoding of a request into the value
\* the loop reuses.  A request that decodes gives the value its own id, or no
\* id when it has none; one that does not decode leaves the value as it was.
UnmarshalRequest(t, req) ==
    IF req.ok THEN [err |-> FALSE, v |-> [ID |-> req.id]]
    ELSE [err |-> TRUE, v |-> t]

\* The server at the other end of the pipe answers a request that has an id
\* and writes nothing for a notification.
ServerAnswers(req) == req.id

\* The entries of replyc and of *replies.
ErrRequestEntry == [err |-> TRUE, id |-> 0]

NilEntry == [err |-> FALSE, id |-> 0]

ReplyEntry(k) == [err |-> FALSE, id |-> k]

\* if testreq.ID != nil { replyc <- nil }
ExpectsReplyAlways(t) == TRUE

ExpectsReply(t) == t.ID

BatchInit ==
    /\ reqs \in SeqsUpTo(BatchRequests, MaxBatch)
    /\ bpc = "loop"
    /\ bi = 1
    /\ testreq = NewTestreq
    /\ replyc = <<>>
    /\ replycClosed = FALSE
    /\ donec = 0
    /\ readerPc = "range"
    /\ replies = <<>>
    /\ served = {}
    /\ cliClosed = FALSE
    /\ berr = FALSE

BatchIdle ==
    /\ reqs = <<>>
    /\ bpc = "idle"
    /\ bi = 0
    /\ testreq = NewTestreq
    /\ replyc = <<>>
    /\ replycClosed = FALSE
    /\ donec = 0
    /\ readerPc = "idle"
    /\ replies = <<>>
    /\ served = {}
    /\ cliClosed = FALSE
    /\ berr = FALSE

\* One turn of the loop over arg.reqs up to its write to the pipe: an invalid
\* request puts the error entry on replyc, a valid one puts nil on replyc when
\* it has an id and goes on to write the request.  replyc has room for every
\* request, so the sends do not wait.
BatchLoop ==
    /\ bpc = "loop"
    /\ IF bi > Len(reqs)
       THEN /\ bpc' = "close"
            /\ UNCHANGED <<bi, testreq, replyc>>
       ELSE LET req == reqs[bi]
                dec == UnmarshalRequest(testreq, req)
            IN  IF req.nil
                THEN /\ replyc' = Append(replyc, ErrRequestEntry)
                     /\ bi' = bi + 1
                     /\ UNCHANGED <<bpc, testreq>>
                ELSE IF dec.err
                THEN /\ testreq' = dec.v
                     /\ replyc' = Append(replyc, ErrRequestEntry)
                     /\ bi' = bi + 1
                     /\ UNCHANGED bpc
                ELSE /\ testreq' = dec.v
                     /\ replyc' = IF ExpectsReply(dec.v) THEN Append(replyc, NilEntry)
                                  ELSE replyc
                     /\ bpc' = "write"
                     /\ UNCHANGED bi
    /\ UNCHANGED <<reqs, replycClosed, donec, readerPc, replies, served, cliClosed, berr>>
    /\ UNCHANGED notBatchVars

\* cli.Write(append(*req, '\n')): the pipe hands the bytes over when the
\* server reads them, which it does whenever a request is written; the server
\* then owes an answer to a request with an id.  A write to a closed pipe
\* fails and ends the loop.
BatchWrite ==
    /\ bpc = "write"
    /\ IF cliClosed
       THEN /\ berr' = TRUE
            /\ bpc' = "close"
            /\ UNCHANGED <<bi, served>>
       ELSE /\ served' = IF ServerAnswers(reqs[bi]) THEN served \cup {bi} ELSE served
            /\ bi' = bi + 1
            /\ bpc' = "loop"
            /\ UNCHANGED berr
    /\ UNCHANGED <<reqs, testreq, replyc, replycClosed, donec, readerPc, replies, cliClosed>>
    /\ UNCHANGED notBatchVars

\* close(replyc)
BatchClose ==
    /\ bpc = "close"
    /\ replycClosed' = TRUE
    /\ bpc' = "wait"
    /\ UNCHANGED <<reqs, bi, testreq, replyc, donec, readerPc, replies, served, cliClosed, berr>>
    /\ UNCHANGED notBatchVars

\* <-donec, return, and the deferred cli.Close()
BatchReturn ==
    /\ bpc = "wait"
    /\ donec > 0
    /\ donec' = donec - 1
    /\ cliClosed' = TRUE
    /\ bpc' = "done"
    /\ UNCHANGED <<reqs, bi, testreq, replyc, replycClosed, readerPc, replies, served, berr>>
    /\ UNCHANGED notBatchVars

\* for reply := range replyc: the reading goroutine takes the next entry; an
\* entry that is not nil goes to *replies as it is, for a nil one the
\* goroutine goes on to decode the server's next answer.  When replyc is
\* closed and empty the goroutine sends on donec and ends.
ReaderRange ==
    /\ readerPc = "range"
    /\ IF replyc # <<>>
       THEN /\ replyc' = Tail(replyc)
            /\ IF Head(replyc) # NilEntry
               THEN /\ replies' = Append(replies, Head(replyc))
                    /\ UNCHANGED readerPc
               ELSE /\ readerPc' = "decode"
                    /\ UNCHANGED replies
            /\ UNCHANGED donec
       ELSE /\ replycClosed
            /\ donec < 1
            /\ donec' = donec + 1
            /\ readerPc' = "done"
            /\ UNCHANGED <<replyc, replies>>
    /\ UNCHANGED <<reqs, bpc, bi, testreq, replycClosed, served, cliClosed, berr>>
    /\ UNCHANGED notBatchVars

\* dec.Decode((*replies)[len(*replies)-1]): the goroutine waits for one answer
\* of the server, whichever the server writes next, and appends it; when the
\* pipe is closed the decoding fails and the entry is the error entry.
ReaderDecode ==
    /\ readerPc = "decode"
    /\ IF cliClosed
       THEN /\ replies' = Append(replies, ErrRequestEntry)
            /\ UNCHANGED served
       ELSE \E k \in served :
                /\ replies' = Append(replies, ReplyEntry(k))
                /\ served' = served \ {k}
    /\ readerPc' = "range"
    /\ UNCHANGED <<reqs, bpc, bi, testreq, replyc, replycClosed, donec, cliClosed, berr>>
    /\ UNCHANGED notBatchVars

BatchNext ==
    \/ BatchLoop
    \/ BatchWrite
    \/ BatchClose
    \/ BatchReturn
    \/ ReaderRange
    \/ ReaderDecode

\* ============================================================== bson decoder

\* The bytes of the streams: small and large digits of the length prefix.
StreamBytes == {0, 3, 4, 5, 127}

BsonStreams == SeqsUpTo(StreamBytes, MaxStream)

\* d.r.Read(lbuf[:]): one Read of a stream with left bytes gives some of them,
\* at most four, and may report the end of the stream with the last of them;
\* at the end of the stream it gives none.
FirstReads(left) ==
    IF left = 0 THEN {[n |-> 0, err |-> "EOF"]}
    ELSE {[n |-> k, err |-> "nil"] : k \in 1..(IF left < 4 THEN left ELSE 4)}
             \cup (IF left <= 4 THEN {[n |-> left, err |-> "EOF"]} ELSE {})

\* The length prefix, lowest byte first.
PrefixLength(lbuf) ==
    lbuf[1] + (lbuf[2] * 256) + (lbuf[3] * 65536) + (lbuf[4] * 16777216)

\* buf[lo:hi] of a slice of capacity c is in range.
SliceInRange(lo, hi, c) == 0 <= lo /\ lo <= hi /\ hi <= c

\* io.ReadFull(d.r, buf[4:]) with need bytes asked and left bytes in the
\* stream.
ReadFull(need, left) ==
    IF need = 0 THEN [n |-> 0, err |-> "nil"]
    ELSE IF left = 0 THEN [n |-> 0, err |-> "EOF"]
    ELSE IF left < need THEN [n |-> left, err |-> "unexpected EOF"]
    ELSE [n |-> need, err |-> "nil"]

BsonPanic == [panic |-> TRUE, err |-> "nil", length |-> 0, read |-> 0]

BsonReturn(e, length, read) == [panic |-> FALSE, err |-> e, length |-> length, read |-> read]

\* bsonDecoder.Decode on a stream whose first Read gave first and whose
\* document bson.Unmarshal answers with unmarshalErr.
Decode(stream, first, unmarshalErr) ==
    IF first.n # 4 THEN BsonReturn("corrupted", 0, first.n)
    ELSE IF first.err # "nil" THEN BsonReturn(first.err, 0, 4)
    ELSE LET length == PrefixLength(SubSeq(stream, 1, 4))
         IN  IF ~SliceInRange(0, 4, length) THEN BsonPanic
             ELSE LET full == ReadFull(length - 4, Len(stream) - 4)
                  IN  IF full.err # "nil" THEN BsonReturn(full.err, length, 4 + full.n)
                      ELSE IF full.n + 4 # length
                      THEN BsonReturn("expected", length, 4 + full.n)
                      ELSE BsonReturn(unmarshalErr, length, length)

NoBsonOut == BsonReturn("nil", 0, 0)

BsonInit ==
    /\ bsStream \in BsonStreams
    /\ bsOp = "ready"
    /\ bsOut = NoBsonOut

BsonIdle ==
    /\ bsStream = <<>>
    /\ bsOp = "idle"
    /\ bsOut = NoBsonOut

BsonDecode ==
    /\ bsOp = "ready"
    /\ \E first \in FirstReads(Len(bsStream)), unmarshalErr \in {"nil", "bson"} :
           bsOut' = Decode(bsStream, first, unmarshalErr)
    /\ bsOp' = "done"
    /\ UNCHANGED bsStream
    /\ UNCHANGED notBsonVars

BsonNext == BsonDecode

\* ========================================================== specifications

InitShutdown ==
    ListenerInit /\ ServerUnserved /\ RegistryServing /\ ClientIdle /\ InvokerIdle /\ GoIdle
        /\ GroupsIdle
        /\ HooksIdle
        /\ PrefixesIdle
        /\ ColferIdle
        /\ BatchIdle
        /\ BsonIdle

SpecShutdown == InitShutdown /\ [][ShutdownNext]_vars

\* The tasks of the server are scheduled: the accept loop on a closed
\* listener, the hook and the start of ServeConn, and every step of a
\* connection that does not wait for its peer.
SpecShutdownFair ==
    /\ SpecShutdown
    /\ WF_vars(ServeListenerStart)
    /\ WF_vars(AcceptAfterClose)
    /\ WF_vars(PostConnAccept)
    /\ WF_vars(GetContext)
    /\ WF_vars(CloseConn)
    /\ WF_vars(HandlerCall)
    /\ WF_vars(LockAndWriteHeader)
    /\ WF_vars(WriteBody)
    /\ WF_vars(UnlockAndPutContext)

InitGroups ==
    /\ GroupsInit /\ RegistryIdle /\ ClientIdle /\ ServerIdle /\ InvokerIdle
    /\ GoIdle /\ ListenerIdle
        /\ HooksIdle
        /\ PrefixesIdle
        /\ ColferIdle
        /\ BatchIdle
        /\ BsonIdle

SpecGroups == InitGroups /\ [][GroupsNext]_vars

InitHooks ==
    /\ HooksInit /\ RegistryIdle /\ ClientIdle /\ ServerIdle /\ InvokerIdle
    /\ GoIdle /\ ListenerIdle /\ GroupsIdle
        /\ PrefixesIdle
        /\ ColferIdle
        /\ BatchIdle
        /\ BsonIdle

SpecHooks == InitHooks /\ [][HooksNext]_vars

InitGo ==
    GoInit /\ RegistryIdle /\ ClientIdle /\ ServerIdle /\ InvokerIdle /\ ListenerIdle /\ GroupsIdle
        /\ HooksIdle
        /\ PrefixesIdle
        /\ ColferIdle
        /\ BatchIdle
        /\ BsonIdle

SpecGo == InitGo /\ [][GoNext]_vars

InitInvoker ==
    InvokerInit /\ RegistryIdle /\ ClientIdle /\ ServerIdle /\ GoIdle /\ ListenerIdle /\ GroupsIdle
        /\ HooksIdle
        /\ PrefixesIdle
        /\ ColferIdle
        /\ BatchIdle
        /\ BsonIdle

SpecInvoker == InitInvoker /\ [][InvokerNext]_vars

InitServer ==
    ServerInit /\ RegistryServing /\ ClientIdle /\ InvokerIdle /\ GoIdle /\ ListenerIdle /\ GroupsIdle
        /\ HooksIdle
        /\ PrefixesIdle
        /\ ColferIdle
        /\ BatchIdle
        /\ BsonIdle

SpecServer == InitServer /\ [][ServerNext]_vars

InitRequest ==
    ServerInit /\ RegistryServing /\ ClientIdle /\ InvokerIdle /\ GoIdle /\ ListenerIdle /\ GroupsIdle
        /\ HooksIdle
        /\ PrefixesIdle
        /\ ColferIdle
        /\ BatchIdle
        /\ BsonIdle

SpecRequest == InitRequest /\ [][RequestNext]_vars

InitClient ==
    ClientInit /\ RegistryIdle /\ ServerIdle /\ InvokerIdle /\ GoIdle /\ ListenerIdle /\ GroupsIdle
        /\ HooksIdle
        /\ PrefixesIdle
        /\ ColferIdle
        /\ BatchIdle
        /\ BsonIdle

SpecClient == InitClient /\ [][ClientNext]_vars

RegistryNext == Register

InitRegistry ==
    RegistryInit /\ ClientIdle /\ ServerIdle /\ InvokerIdle /\ GoIdle /\ ListenerIdle /\ GroupsIdle
        /\ HooksIdle
        /\ PrefixesIdle
        /\ ColferIdle
        /\ BatchIdle
        /\ BsonIdle

SpecRegistry == InitRegistry /\ [][RegistryNext]_vars

InitPrefixes ==
    PrefixesInit /\ RegistryIdle /\ ClientIdle /\ ServerIdle /\ InvokerIdle /\ GoIdle
        /\ ListenerIdle /\ GroupsIdle /\ HooksIdle
        /\ ColferIdle
        /\ BatchIdle
        /\ BsonIdle

SpecPrefixes == InitPrefixes /\ [][PrefixesNext]_vars

InitColfer ==
    ColferInit /\ RegistryIdle /\ ClientIdle /\ ServerIdle /\ InvokerIdle /\ GoIdle
        /\ ListenerIdle /\ GroupsIdle /\ HooksIdle /\ PrefixesIdle
        /\ BatchIdle
        /\ BsonIdle

SpecColfer == InitColfer /\ [][ColferNext]_vars

InitBatch ==
    BatchInit /\ RegistryIdle /\ ClientIdle /\ ServerIdle /\ InvokerIdle /\ GoIdle
        /\ ListenerIdle /\ GroupsIdle /\ HooksIdle /\ PrefixesIdle /\ ColferIdle
        /\ BsonIdle

SpecBatch == InitBatch /\ [][BatchNext]_vars

\* The goroutines of Batch are scheduled whenever they can take a step.
SpecBatchFair == SpecBatch /\ WF_vars(BatchNext)

InitBson ==
    BsonInit /\ RegistryIdle /\ ClientIdle /\ ServerIdle /\ InvokerIdle /\ GoIdle
        /\ ListenerIdle /\ GroupsIdle /\ HooksIdle /\ PrefixesIdle /\ ColferIdle
        /\ BatchIdle

SpecBson == InitBson /\ [][BsonNext]_vars

\* ================================================================== claims

Present(seq, x) == \E k \in 1..Len(seq) : seq[k] = x

\* The positions of the log that hold a call of kind op.
OpsAt(op) == {k \in 1..Len(clog) : clog[k].op = op}

NumOps(op) == Cardinality(OpsAt(op))

\* C1: registry uniqueness.  A register call never replaces an entry that
\* serviceMap already holds, and when it built a path that was already in
\* serviceMap its error names AlreadyExists for that path.
C1_RegistryUniqueness ==
    [][\A p \in DOMAIN serviceMap :
          /\ p \in DOMAIN serviceMap'
          /\ serviceMap'[p] = serviceMap[p]
          /\ (regCount' # regCount /\ Present(regPaths', p)
                => Present(regErr', [kind |-> "AlreadyExists", path |-> p]))]_vars

\* C2: under Failfast a Call that has returned made exactly one Select and at
\* most one invoker.Call, and returned nil only if that call succeeded.
C2_FailfastSingleAttempt ==
    (failMode = "Failfast" /\ cpc = "done") =>
        /\ NumOps("Select") = 1
        /\ NumOps("Call") <= 1
        /\ (cerr = Nil => \E k \in OpsAt("Call") : clog[k].ok)

AllSelectsGaveInvoker == \A k \in OpsAt("Select") : clog[k].inv # NoInvoker

AllCallsFailed == \A k \in OpsAt("Call") : ~clog[k].ok

\* C3: under Failover the number of invoker.Call attempts never exceeds
\* MaxTry, and a Call that has returned after every Select gave an invoker and
\* every invoker.Call failed made exactly MaxTry attempts and returned an
\* error.
C3_MaxTryBound ==
    failMode = "Failover" =>
        /\ NumOps("Call") <= maxTry
        /\ (cpc = "done" /\ AllSelectsGaveInvoker /\ AllCallsFailed
              => NumOps("Call") = maxTry /\ cerr # Nil)

C3_Witness ==
    /\ failMode = "Failover"
    /\ cpc = "done"
    /\ maxTry = DefaultMaxTry
    /\ AllSelectsGaveInvoker
    /\ AllCallsFailed
    /\ NumOps("Call") = maxTry
    /\ cerr # Nil

\* C4: under Failover every failed invoker.Call is followed at once, before
\* any other call on the selector, by one HandleFailed on that invoker; every
\* HandleFailed follows such a failed call; and a successful invoker.Call is
\* the last call made, with Call returning nil.
C4_FailoverHandleFailed ==
    failMode = "Failover" =>
        \A k \in 1..Len(clog) :
            /\ (clog[k].op = "Call" /\ ~clog[k].ok) =>
                  IF k < Len(clog)
                  THEN clog[k + 1] = [op |-> "HandleFailed", inv |-> clog[k].inv, ok |-> TRUE]
                  ELSE cpc = "handle"
            /\ (clog[k].op = "Call" /\ clog[k].ok) =>
                  k = Len(clog) /\ cpc = "done" /\ cerr = Nil
            /\ clog[k].op = "HandleFailed" =>
                  k > 1 /\ clog[k - 1] = [op |-> "Call", inv |-> clog[k].inv, ok |-> FALSE]

C4_Witness ==
    /\ failMode = "Failover"
    /\ cpc = "done"
    /\ cerr = Nil
    /\ \E k \in 1..Len(clog) :
          /\ k + 3 = Len(clog)
          /\ clog[k].op = "Call" /\ ~clog[k].ok
          /\ clog[k + 1].op = "HandleFailed"
          /\ clog[k + 2].op = "Select"
          /\ clog[k + 3].op = "Call" /\ clog[k + 3].ok

\* C5: under Failtry, once a Select has returned an invoker no later Select
\* is made and every later invoker.Call is on that invoker; at most MaxTry
\* attempts are made.
C5_FailtrySameInvoker ==
    failMode = "Failtry" =>
        /\ NumOps("Call") <= maxTry
        /\ \A k \in OpsAt("Select") :
              clog[k].inv # NoInvoker =>
                  \A j \in (k + 1)..Len(clog) :
                      /\ clog[j].op # "Select"
                      /\ clog[j].op = "Call" => clog[j].inv = clog[k].inv
        /\ \A k \in OpsAt("Call") :
              \E j \in OpsAt("Select") : j < k /\ clog[j].inv = clog[k].inv

C5_Witness ==
    /\ failMode = "Failtry"
    /\ Len(clog) >= 5
    /\ clog[1].op = "Select" /\ clog[1].inv = NoInvoker
    /\ clog[2].op = "Select" /\ clog[2].inv # NoInvoker
    /\ clog[3].op = "Call" /\ ~clog[3].ok
    /\ clog[4].op = "HandleFailed"
    /\ clog[5].op = "Call" /\ clog[5].inv = clog[2].inv

\* The Go calls made on invoker i.
NumGo(i) == Cardinality({k \in OpsAt("Go") : clog[k].inv = i})

\* C6: a Broadcast Call that has returned issued exactly one Go to every
\* invoker of the List snapshot and none to another; it returned nil exactly
\* if every invoker of the snapshot completed without error, and an error
\* only if some invoker completed with one.
C6_BroadcastAllSucceed ==
    (failMode = "Broadcast" /\ cpc = "done") =>
        /\ \A i \in Invokers : NumGo(i) = IF i \in snapshot THEN 1 ELSE 0
        /\ cerr = Nil <=> \A i \in snapshot : invState[i] = "ok"
        /\ cerr # Nil => \E i \in snapshot : invState[i] = "err"

C6_Witness ==
    /\ failMode = "Broadcast"
    /\ cpc = "done"
    /\ Cardinality(snapshot) >= 2
    /\ cerr = Nil
    /\ \A i \in snapshot : invState[i] = "ok"

\* C7: a Forking Call that has returned, for every snapshot size, returned
\* nil exactly if some invoker of the snapshot completed without error and an
\* error exactly if all of them failed.
C7_ForkingAnySucceeds ==
    (failMode = "Forking" /\ cpc = "done") =>
        /\ cerr = Nil <=> \E i \in snapshot : invState[i] = "ok"
        /\ cerr # Nil <=> \A i \in snapshot : invState[i] = "err"

\* C8: once a Forking Call has returned nil on the completion of an invoker,
\* the caller's reply destination holds that invoker's reply, then and later.
C8_ForkingReplyStable ==
    (failMode = "Forking" /\ cpc = "done" /\ cerr = Nil /\ returnedBy # NoInvoker)
        => replyDest = returnedBy


\* The tasks that hold the connection for a response: the header is written
\* and the body is not, or both are written and sending is not yet unlocked.
Writing == {s \in Senders : spc[s] \in {"body", "unlock"}}

\* On the connection every body directly follows the header of its own
\* response; a header without a body can only be the last thing written.
WireWellFormed ==
    \A k \in 1..Len(wire) :
        /\ (wire[k].part = "header" /\ k < Len(wire)) =>
               wire[k + 1] = [part |-> "body", req |-> wire[k].req]
        /\ wire[k].part = "body" =>
               (k > 1 /\ wire[k - 1] = [part |-> "header", req |-> wire[k].req])

\* C9: on one connection the response writes exclude each other: at most one
\* task is between sending.Lock() and sending.Unlock(), it is the holder of
\* sending, and the header and body of two responses never interleave on the
\* connection.
C9_ResponseWritesExclusive ==
    /\ Cardinality(Writing) <= 1
    /\ \A s \in Writing : sending = s
    /\ WireWellFormed

\* A task has written its header and not yet its body while another task
\* waits in sending.Lock() with its own response.
C9_Witness ==
    \E s \in Senders, t \in Senders :
        /\ s # t
        /\ spc[s] = "body"
        /\ spc[t] = "lock"
        /\ wire # <<>>
        /\ wire[Len(wire)] = [part |-> "header", req |-> RequestOf(s)]

\* The calls of codec.WriteResponse made for request n.
ResponsesFor(n) == {k \in 1..Len(responses) : responses[k].req = n}

\* Request n was read with its header decoded, and the sendResponse that
\* answers it has returned.
Answered(n) ==
    /\ n <= nread
    /\ spc[n] \in {"idle", "finished"}
    /\ ~(dpc = "send" /\ dreq = n)

NotFoundRequests ==
    {n \in 1..nread : failedStep[n] = ErrorTypeServerNotFoundService}

\* C11: a request whose path is not in the registry invokes no handler and
\* its response (unless a PreWriteResponse hook failed on it) has the
\* request's seq and an error string that starts with the NotFoundService
\* code.
C11_NotFoundResponse ==
    \A n \in NotFoundRequests :
        /\ handled[n] = "none"
        /\ spc[n] = "idle"
        /\ \A k \in ResponsesFor(n) :
              /\ responses[k].seq = reqHdr[n].seq
              /\ responses[k].body # "nil" =>
                    /\ responses[k].error # <<>>
                    /\ Head(responses[k].error) = Itoa(ErrorTypeServerNotFoundService)


\* C12: when a handler returns a non-nil error, also one whose message is
\* empty, the response written for its request has a non-empty error string
\* and not the handler's reply as its body.
C12_HandlerErrorResponse ==
    \A n \in Handlers :
        handled[n] \in {"error", "emptyError"} =>
            \A k \in ResponsesFor(n) :
                /\ responses[k].error # <<>>
                /\ responses[k].body # "reply"


\* C13: a handler that panics does not end the dispatch loop: its request
\* gets exactly one response, with the request's seq and an error and not the
\* reply, and every other request whose handler returns nil is answered
\* with its own seq and its reply (unless a PreWriteResponse hook failed on
\* that response).
C13_PanicRecovered ==
    \A n \in Handlers :
        handled[n] = "panic" =>
            /\ \A k \in ResponsesFor(n) :
                  /\ responses[k].seq = reqHdr[n].seq
                  /\ responses[k].error # <<>>
                  /\ responses[k].body # "reply"
            /\ Answered(n) => Cardinality(ResponsesFor(n)) = 1
            /\ \A j \in Handlers \ {n} :
                  handled[j] = "nil" =>
                      \A k \in ResponsesFor(j) :
                          /\ responses[k].seq = reqHdr[j].seq
                          /\ responses[k].body # "nil" =>
                                /\ responses[k].error = <<>>
                                /\ responses[k].body = "reply"

\* The handler of request 1 panicked and its error response is on the
\* connection; the handler of request 2, read on the same connection, returned
\* nil and its reply was written after it; the loop stands at its next read.
C13_Witness ==
    /\ handled[1] = "panic"
    /\ handled[2] = "nil"
    /\ Answered(1)
    /\ Answered(2)
    /\ Len(responses) = 2
    /\ responses[1].req = 1
    /\ responses[1].error # <<>>
    /\ responses[2] = [req |-> 2, seq |-> reqHdr[2].seq, method |-> reqHdr[2].method,
                       error |-> <<>>, body |-> "reply",
                       preErr |-> FALSE, postErr |-> FALSE]
    /\ wire = <<[part |-> "header", req |-> 1], [part |-> "body", req |-> 1],
                [part |-> "header", req |-> 2], [part |-> "body", req |-> 2]>>
    /\ dpc = "read"
    /\ ~connClosed


\* The codes of the steps of the server that set an error type.
ServerStepCodes ==
    {Itoa(t) : t \in ErrorTypeServerPreReadRequestHeader..ErrorTypeServerPreWriteResponse}

\* C14: the error string of a response is the code of the step that failed
\* for the response's own request, followed by the message, with one prefix:
\* the PreWriteResponse code when that hook failed on the response, else the
\* code of the step of readRequest that failed first, and for the error of a
\* handler not the code of any step of the server.
C14_ErrorPrefix ==
    \A k \in 1..Len(responses) :
        LET resp == responses[k]
            n == resp.req
        IN resp.error # <<>> =>
              /\ Len(resp.error) >= 2
              /\ \A i \in 2..Len(resp.error) : resp.error[i] \notin ServerStepCodes
              /\ resp.body = "nil" =>
                    Head(resp.error) = Itoa(ErrorTypeServerPreWriteResponse)
              /\ (resp.body # "nil" /\ failedStep[n] # 0) =>
                    Head(resp.error) = Itoa(failedStep[n])
              /\ (resp.body # "nil" /\ failedStep[n] = 0) =>
                    Head(resp.error) \notin ServerStepCodes


\* C15: after a failure of readRequest on a request whose header was decoded,
\* the codec has consumed exactly one body for that request, no handler runs
\* for it, and it gets one response, which carries an error.
C15_BodyDrained ==
    \A n \in 1..nread :
        failedStep[n] # 0 =>
            /\ consumed[n] = 1
            /\ handled[n] = "none"
            /\ \A k \in ResponsesFor(n) : responses[k].error # <<>>
            /\ Answered(n) => Cardinality(ResponsesFor(n)) = 1


\* C16: a header read that decodes no header (end of stream, a codec error,
\* a failing PreReadRequestHeader hook) writes no response and starts none,
\* and the loop is left; from then on the dispatch task reads nothing and
\* writes nothing, and its only step closes the connection.
C16_HeaderFailureEndsLoop ==
    [][/\ (dpc = "read" /\ dpc' # "read" /\ nread' = nread) =>
             /\ dpc' = "break"
             /\ responses' = responses
             /\ wire' = wire
             /\ sending' = sending
             /\ spc' = spc
       /\ dpc \in {"break", "closed"} =>
             /\ dpc' \in {"break", "closed"}
             /\ nread' = nread
             /\ spc'[DispatchTask] = "idle"
             /\ dpc' = "closed" => connClosed'
       /\ connClosed' => dpc' = "closed"]_vars

\* The loop was left after one request had been read and answered, and the
\* connection is closed.
C16_Witness ==
    /\ dpc = "closed"
    /\ connClosed
    /\ nread = 1
    /\ Len(responses) = 1


\* C17: with several callers on one invoker, every call that is delivered
\* without error holds in its reply the value the handler produced for that
\* call's own argument, in whatever order the server wrote the responses.
C17_ReplyMatchesCall ==
    \A c \in Callers :
        (calls[c].signals >= 1 /\ calls[c].error = Nil) =>
            /\ calls[c].by = "receive"
            /\ calls[c].reply = HandlerReply(calls[c].args)

\* Two calls with different arguments were both delivered without error,
\* and the server had written the response of the later request first.
C17_Witness ==
    /\ calls[1].args # calls[2].args
    /\ \A c \in {1, 2} : calls[c].signals = 1 /\ calls[c].error = Nil
    /\ Len(respWire) >= 2
    /\ respWire[1].seq > respWire[2].seq

GoSelectFailed == cgPc # "ready" /\ cgSel.err # Nil

\* Client.Go has run and Select returned an invoker.
GoSelected == cgPc # "ready" /\ cgSel.err = Nil /\ cgSel.invoker # NoInvoker

\* The done channel passed to Go is a channel without a buffer.
GoDoneUnbuffered == ~cgDoneIn.isNil /\ cgDoneIn.cap = 0

\* The done channel passed to Go is a channel whose buffer is full.
GoDoneFull == ~cgDoneIn.isNil /\ cgDoneIn.cap > 0 /\ cgDoneIn.len = cgDoneIn.cap

\* Go handed the call to the selected invoker's Go, once, with its own arguments.
GoDelegatedOnce ==
    /\ cgPc = "returned"
    /\ cgDelivered = 0
    /\ cgLog = <<[inv |-> cgSel.invoker, method |-> cgIn.method,
                  args |-> cgIn.args, done |-> cgDoneIn]>>

\* Go returned a Call that carries the selection error and was sent once on
\* its done channel.
GoDeliveredError ==
    /\ cgPc = "returned"
    /\ cgCall.error = cgSel.err
    /\ cgCall.method = cgIn.method
    /\ cgCall.args = cgIn.args
    /\ cgDelivered = 1
    /\ cgLog = <<>>

\* C19 as stated: when Select fails, Go returns without blocking a Call
\* whose Error is the selection error and which was delivered exactly once
\* on its done channel (of capacity 1 when done was nil), except that a
\* non-nil done of capacity 0 panics; when Select succeeds, Go delegates
\* exactly once to the selected invoker's Go with the same arguments.
C19_GoAsStated ==
    /\ GoSelectFailed /\ GoDoneUnbuffered => cgPc = "panic" /\ cgDelivered = 0
    /\ GoSelectFailed /\ ~GoDoneUnbuffered => GoDeliveredError
    /\ GoSelectFailed /\ cgDoneIn.isNil => cgCall.doneCap = 1
    /\ GoSelected => GoDelegatedOnce

\* C19, amended: as stated, for a done channel that is nil or has room in
\* its buffer; on a non-nil done channel whose buffer is full the Call is
\* built with the selection error but not delivered.
C19_GoSelectFailure ==
    /\ GoSelectFailed /\ GoDoneUnbuffered => cgPc = "panic" /\ cgDelivered = 0
    /\ GoSelectFailed /\ ~GoDoneUnbuffered /\ ~GoDoneFull =>
           /\ GoDeliveredError
           /\ cgDone.len = (IF cgDoneIn.isNil THEN 0 ELSE cgDoneIn.len) + 1
    /\ GoSelectFailed /\ cgDoneIn.isNil => cgCall.doneCap = 1 /\ cgDone.cap = 1
    /\ GoSelectFailed /\ GoDoneFull =>
           /\ cgPc \in {"returned", "blocked"}
           /\ cgCall.error = cgSel.err
           /\ cgDelivered = 0
           /\ cgDone = cgDoneIn
    /\ GoSelected => GoDelegatedOnce

C19_Witness ==
    /\ GoSelectFailed
    /\ cgDoneIn.isNil
    /\ cgPc = "returned"
    /\ cgCall.error = "SelectErr"
    /\ cgDelivered = 1
    /\ cgDone = [isNil |-> FALSE, cap |-> 1, len |-> 1]


\* C20: once Server.Close has closed the listener, ServeListener accepts no
\* further connection and eventually returns; Close changes nothing on a
\* connection that is served, and every request read on it, before or after
\* Close, is answered by its one response.
C20_Shutdown ==
    /\ [][lisClosed => Len(conns') = Len(conns)]_vars
    /\ [][lisClosed' # lisClosed => UNCHANGED serverVars]_vars
    /\ lisClosed ~> (lpc = "returned")
    /\ \A n \in Handlers :
          (lisClosed /\ n <= nread) ~> (Answered(n) /\ Cardinality(ResponsesFor(n)) = 1)

C20_Witness ==
    /\ lisClosed
    /\ lpc = "returned"
    /\ ~connClosed
    /\ nread > nreadAtClose
    /\ Answered(nread)
    /\ \E k \in ResponsesFor(nread) : responses[k].body = "reply"


\* Some accepted connection was handed to ServeConn.
SomeConnServed == \E k \in 1..Len(conns) : conns[k].tasks > 0

\* C21: a connection whose PostConnAccept hook failed has no dispatch task,
\* and while no connection has one nothing is read or answered; a connection
\* whose hook succeeded has exactly one dispatch task; after the hook, failed
\* or not, the loop is back at Accept.
C21_HookGatesDispatch ==
    /\ \A k \in 1..Len(conns) :
          /\ conns[k].hook = "err" => conns[k].tasks = 0
          /\ conns[k].hook = "ok" => conns[k].tasks = 1
          /\ conns[k].hook = "pending" => k = Len(conns) /\ lpc = "hook" /\ conns[k].tasks = 0
    /\ lpc = "hook" => Len(conns) > 0 /\ conns[Len(conns)].hook = "pending"
    /\ ~SomeConnServed =>
          dpc = "unserved" /\ nread = 0 /\ responses = <<>> /\ wire = <<>>
    /\ SomeConnServed => dpc # "unserved"

C21_Witness ==
    /\ Len(conns) = 2
    /\ conns[1].hook = "err"
    /\ conns[1].tasks = 0
    /\ conns[2].hook = "ok"
    /\ conns[2].tasks = 1
    /\ nread > 0
    /\ Answered(nread)


\* The plugin list a group or a service shows now.
PluginsNow(x) == SliceElems(heap, x.plugins)

\* C22: every group shows the list its parent showed when the group was
\* made followed by the plugins given to Group, and every service the list
\* its group showed when it was registered; since this holds in every state,
\* no later Group or RegisterName changes the list of a parent, of a sibling
\* or of a service, and the list of a parent is still the front part of the
\* list of each of its children.
C22_PluginInheritance ==
    /\ \A g \in 1..Len(groups) :
          /\ PluginsNow(groups[g]) = groups[g].inherited \o groups[g].given
          /\ groups[g].parent # 0 =>
                PluginsNow(groups[groups[g].parent]) = groups[g].inherited
          /\ groups[g].parent = 0 => groups[g].inherited = <<>>
    /\ \A s \in 1..Len(svcs) :
          /\ PluginsNow(svcs[s]) = svcs[s].groupHad
          /\ svcs[s].group # 0 => PluginsNow(groups[svcs[s].group]) = svcs[s].groupHad
          /\ svcs[s].group = 0 => svcs[s].groupHad = <<>>

C22_Witness ==
    /\ Len(groups) = 3
    /\ groups[2].parent = 1
    /\ groups[3].parent = 1
    /\ PluginsNow(groups[1]) = <<"P", "Q", "R">>
    /\ PluginsNow(groups[2]) = <<"P", "Q", "R", "S">>
    /\ PluginsNow(groups[3]) = <<"P", "Q", "R", "T">>
    /\ Len(svcs) = 1
    /\ svcs[1].group = 2
    /\ svcs[1].plugins.arr < groups[3].plugins.arr
    /\ PluginsNow(svcs[1]) = <<"P", "Q", "R", "S">>


\* The order server-global pre, service pre, codec I/O, service post,
\* server-global post.
StepRank(step) ==
    CASE step = "serverPre" -> 1 [] step = "servicePre" -> 2 [] step = "codec" -> 3
      [] step = "servicePost" -> 4 [] OTHER -> 5

\* The steps of the call, in that order, for a context with or without a
\* service.
HookOrder(hasService) ==
    IF hasService THEN <<"serverPre", "servicePre", "codec", "servicePost", "serverPost">>
    ELSE <<"serverPre", "codec", "serverPost">>

\* The steps that ran, ran in the order.
RanInOrder ==
    \A i, j \in 1..Len(hkOut.trace) :
        i < j => StepRank(hkOut.trace[i]) < StepRank(hkOut.trace[j])

\* Step ran in the call.
Ran(step) == \E k \in 1..Len(hkOut.trace) : hkOut.trace[k] = step

\* A hook that ran returned an error.
HookFailed(step) == step # "codec" /\ Ran(step) /\ step \in hkIn.fails

\* C23 as stated: in a body read and in a response write the steps run in
\* the order without a gap, and a hook that returns an error is the last
\* step of the call.
C23_HookOrderAsStated ==
    hkOp # "none" =>
        /\ RanInOrder
        /\ hkOut.trace = SubSeq(HookOrder(hkIn.hasService), 1, Len(hkOut.trace))
        /\ \A step \in HookSteps : HookFailed(step) => hkOut.trace[Len(hkOut.trace)] = step

\* C23, amended: the steps run in the order; a failing pre hook prevents the
\* later pre hooks, and in a body read also the codec's read and the post
\* hooks, while in a response write the codec's write and the post hooks
\* still run; a failing service post hook prevents the server-global post
\* hook; without a failure every step of the order runs.
C23_HookOrder ==
    hkOp # "none" =>
        /\ RanInOrder
        /\ Ran("serverPre")
        /\ Ran("servicePre") <=> (hkIn.hasService /\ "serverPre" \notin hkIn.fails)
        /\ Ran("codec") <=>
              (hkOp = "write" \/ ~(HookFailed("serverPre") \/ HookFailed("servicePre")))
        /\ Ran("servicePost") <=>
              (hkIn.hasService /\ Ran("codec") /\ "codec" \notin hkIn.fails)
        /\ Ran("serverPost") <=>
              (Ran("codec") /\ "codec" \notin hkIn.fails /\ ~HookFailed("servicePost"))

C23_Witness ==
    /\ hkOp = "write"
    /\ hkIn.hasService
    /\ hkIn.fails = {"serverPre"}
    /\ hkOut.trace = <<"serverPre", "codec", "servicePost", "serverPost">>


C25_ContextResetOnCheckout ==
    dpc = "read" => [dctx EXCEPT !.id = 0] = [NewContext EXCEPT !.codecConn = TRUE]


\* The tasks that hold a context: the dispatch task between getContext and
\* the hand-over, a sender from the hand-over to putContext.
HoldsContext(s) == sctx[s].id # 0

PooledIds == {c.id : c \in pool}

\* The sender is between the hand-over of its request and the end of the
\* response write.
InFlight(s) == spc[s] \in {"call", "lock", "body"}

\* C26: a Context object is bound to at most one in-flight request: no two
\* tasks hold the same context, a task that works on a request holds a
\* context that carries this request and is not in the pool, and a context
\* enters the pool only from the task that held it, after its response write
\* ended or when its request was abandoned before a header was read; that
\* task holds no context afterwards.
C26_ContextNotShared ==
    /\ [](/\ \A s, t \in Senders :
                s # t /\ HoldsContext(s) /\ HoldsContext(t) => sctx[s].id # sctx[t].id
          /\ \A s \in Senders : HoldsContext(s) =>
                /\ sctx[s].id # dctx.id
                /\ sctx[s].id \notin PooledIds
                /\ sctx[s].req = reqHdr[RequestOf(s)]
          /\ \A s \in Senders : InFlight(s) \/ spc[s] = "unlock" => HoldsContext(s)
          /\ dctx.id # 0 => dctx.id \notin PooledIds
          /\ \A c, d \in pool : c.id = d.id => c = d)
    /\ [][\A c \in pool' \ pool :
            \/ \E s \in Senders : /\ spc[s] = "unlock"
                                  /\ sctx[s].id = c.id
                                  /\ ~HoldsContext(s)'
            \/ /\ dpc = "read"
               /\ dctx.id = c.id
               /\ dctx'.id = 0
               /\ nread' = nread]_vars

\* Two handlers run at once, each on its own context, while a third context
\* lies in the pool.
C26_Witness ==
    /\ spc[1] = "call"
    /\ spc[2] = "lock"
    /\ HoldsContext(1)
    /\ HoldsContext(2)
    /\ pool # {}


\* The number of places that hold the context with identity k: the dispatch
\* task, the senders and the pool.
PlacesOf(k) ==
    Cardinality({s \in Senders : sctx[s].id = k})
        + (IF dctx.id = k THEN 1 ELSE 0)
        + Cardinality({c \in pool : c.id = k})

\* C27: every context obtained with getContext is put back exactly once on
\* every path: at any time each context built so far is either held by the
\* one task that works with it or in the pool once, and a step puts a
\* context into the pool only from the task that held it.
C27_ContextsReturned ==
    /\ [](\A k \in 1..made : PlacesOf(k) = 1)
    /\ [][\A c \in pool' \ pool :
            \/ \E s \in Senders : sctx[s].id = c.id /\ ~HoldsContext(s)'
            \/ dctx.id = c.id /\ dctx'.id = 0]_vars


\* Request k was handed over by the dispatch task: to its handler task, or
\* to sendResponse in the dispatch task itself after a failed read.
HandedOver(k) == spc[k] # "idle" \/ failedStep[k] # 0

\* C28: the dispatch task reads the requests of a connection one after
\* another and waits for no handler: header and body of a request are read
\* in one go, a request is read only when every earlier one was handed
\* over, and the dispatch task is never in a position of waiting for a
\* handler: it stops reading only while it sends the answer to a failed read
\* itself or after it left the loop.
C28_ReadsDoNotWaitForHandlers ==
    /\ Len(reqHdr) = nread
    /\ Len(consumed) = nread
    /\ \A k \in 1..nread : HandedOver(k)
    /\ dpc \in {"get", "read", "send", "break", "closed"}
    /\ dpc = "send" => dreq = nread /\ failedStep[nread] # 0

\* The handler of request 1 is still running; request 2 was read, handled
\* and answered in full.
C28_Witness ==
    /\ nread = 2
    /\ spc[1] = "call"
    /\ spc[2] = "finished"
    /\ Len(responses) = 1
    /\ responses[1].req = 2
    /\ responses[1].error = <<>>
    /\ Len(wire) = 2


\* C29: in Broadcast and Forking the done channel has the capacity N of the
\* invokers dispatched; it never buffers more than N completions nor two of
\* one invoker, and whenever an invoker is about to deliver its completion
\* there is room for it, also after Call has returned.
C29_DoneChannelNeverBlocks ==
    (failMode \in {"Broadcast", "Forking"} /\ cpc # "ready" /\ snapshot # {}) =>
        /\ doneCap = Cardinality(snapshot)
        /\ Len(done) <= doneCap
        /\ \A j, k \in 1..Len(done) : j # k => done[j].inv # done[k].inv
        /\ \A k \in 1..Len(done) : done[k].inv \in snapshot
        /\ \A i \in Invokers :
              invState[i] \in {"pending", "decoded"} => Len(done) < doneCap

\* A Forking Call over three invokers returned on the first completion; the
\* two others delivered theirs afterwards and nobody receives them.
C29_Witness ==
    /\ failMode = "Forking"
    /\ cpc = "done"
    /\ Cardinality(snapshot) = NumInvokers
    /\ Len(done) = NumInvokers - 1
    /\ \A i \in snapshot : invState[i] \in {"ok", "err"}


\* C30: a Failover or Failtry Call that has returned reports a nil error
\* exactly if one of its invoker.Call attempts returned nil; without such
\* an attempt, and without any invoker obtained, the error is not nil.
C30_NilOnlyOnSuccess ==
    (failMode \in {"Failover", "Failtry"} /\ cpc = "done") =>
        (cerr = Nil <=> \E k \in OpsAt("Call") : clog[k].ok)


\* C31: within one Call no invoker is called again after it was passed to
\* HandleFailed: every invoker.Call and invoker.Go that follows a
\* HandleFailed on the same invoker has a Select in between that returned
\* this invoker.
C31_NoCallAfterHandleFailed ==
    \A k \in OpsAt("HandleFailed") :
        \A j \in (k + 1)..Len(clog) :
            (clog[j].op \in {"Call", "Go"} /\ clog[j].inv = clog[k].inv) =>
                \E i \in (k + 1)..(j - 1) :
                    clog[i].op = "Select" /\ clog[i].inv = clog[j].inv


\* routers is in ascending order.
RoutersSorted(r) == \A k \in 1..(Len(r) - 1) : ~PathLess(r[k + 1], r[k])

\* C32: registration is all-or-nothing: a register call that returns an
\* error leaves serviceMap and routers as they were, and after one that
\* returns nil routers is sorted and holds exactly the keys of serviceMap,
\* each once.
C32_RegisterAllOrNothing ==
    [][regCount' # regCount =>
          IF regErr' # <<>>
          THEN serviceMap' = serviceMap /\ routers' = routers
          ELSE /\ RoutersSorted(routers')
               /\ {routers'[k] : k \in 1..Len(routers')} = DOMAIN serviceMap'
               /\ Len(routers') = Cardinality(DOMAIN serviceMap')]_vars


\* C33: a group keeps the prefixes it was made with whatever Group and
\* RegisterName calls follow on other groups or on itself, and RegisterName
\* passes to register the prefixes its group was made with and then the
\* name.
C33_PrefixesFixed ==
    /\ \A g \in 1..Len(pgroups) : SliceElems(pheap, pgroups[g].prefixes) = pgroups[g].made
    /\ \A r \in 1..Len(pregs) :
          pregs[r].pathSegments = pgroups[pregs[r].group].made \o <<pregs[r].name>>


\* C34: ServeConn closes the connection only after every handler it started
\* has finished its response write: while the connection is closed no
\* handler is between its start and the end of its sendResponse.
C34_CloseAfterHandlers ==
    connClosed => \A n \in Handlers : spc[n] \in {"idle", "finished"}


\* The connection whose ServeConn is followed: the first one the hook let
\* through.
Followed(k) == conns[k].hook = "ok" /\ \A j \in 1..(k - 1) : conns[j].hook # "ok"

\* The server has closed the k-th accepted connection.
ClosedByServer(k) == conns[k].closed \/ (Followed(k) /\ connClosed)

\* C35: every accepted connection is closed by the server once it stops
\* serving it: one that the PostConnAccept hook rejected, and one whose
\* dispatch loop has ended.
C35_AcceptedConnsClosed ==
    \A k \in 1..MaxConns :
        /\ (k <= Len(conns) /\ conns[k].hook = "err") ~> (k <= Len(conns) /\ ClosedByServer(k))
        /\ (k <= Len(conns) /\ Followed(k) /\ dpc = "break")
              ~> (k <= Len(conns) /\ ClosedByServer(k))


\* C36: the bytes of MarshalBinary(h) are MarshalLen(h) many, and decoding
\* them into any destination returns no error, reads all of them and leaves
\* SeqID, Method and Error equal to those of h.
C36_ColferRoundTrip ==
    cfOp = "done" =>
        /\ ~cfOut.panic
        /\ Len(cfOut.data) = cfOut.len
        /\ cfOut.err = "nil"
        /\ cfOut.n = Len(cfOut.data)
        /\ cfOut.o = cfH

\* The requests of the batch that get an entry: the invalid ones and the
\* valid ones with an id.
InvalidRequest(req) == req.nil \/ ~req.ok

WithEntry(S) == {k \in S : InvalidRequest(reqs[k]) \/ reqs[k].id}

C38_DecodeNeverPanics ==
    bsOp = "done" =>
        /\ ~bsOut.panic
        /\ (Len(bsStream) < 4 => bsOut.err # "nil")
        /\ (Len(bsStream) >= 4 /\ PrefixLength(SubSeq(bsStream, 1, 4)) > Len(bsStream)
               => bsOut.err # "nil")

=============================================================================
